---- MODULE Spec2Model ----
(***************************************************************************)
(* Model of the TA microsite metrics engine:                               *)
(*   - the client dashboard (app/dashboard/page.tsx): date normalizer,     *)
(*     elapsed days, date-range filter and metrics aggregator;             *)
(*   - the server data route (app/api/get-ai-summary/route.ts, second      *)
(*     half): elapsed days with its own date normalizer, and aggregator.   *)
(*                                                                         *)
(* Text is a sequence of one-character strings, so that the regular        *)
(* expressions of the source are matched character by character.  A time   *)
(* value is a number of MINUTES since the epoch (the source's              *)
(* milliseconds divided by 60000; every date the model builds is a whole   *)
(* number of minutes).                                                     *)
(***************************************************************************)
EXTENDS Integers, Sequences, FiniteSets, TLC

VARIABLES
    clientTz,              \* browser's UTC offset in minutes (east positive)
    serverTz,              \* server host's UTC offset in minutes
    browser,               \* the browser's generic date parser: "v8" or "strict"
    rawMbrData,            \* useState rawMbrData: Null while loading, else the response
    startDate,             \* useState startDate (text of the date input)
    endDate,               \* useState endDate
    filteredDataAndMetrics,\* the useMemo value of the dashboard
    dateA,                 \* first date text handed to the elapsed-days functions
    dateB,                 \* second date text
    clientDates,           \* client parseDateForFiltering of dateA and of dateB
    serverDates,           \* server parseDate of dateA and of dateB
    clientDays,            \* client getDaysDifference(dateA, dateB)
    serverDays,            \* server getDaysDifference(dateA, dateB)
    measured,              \* which implementations have run on dateA, dateB
    pc,                    \* dashboard position: "loading" | "ready" | "error"
    monthlyJoinersData,    \* the render's getMonthlyJoinersData(), Null before there is data
    sheetRows,             \* the grid handed to parseSheetData (response.data.values)
    parsed,                \* what parseSheetData returned for it, Null before the call
    processEnv,            \* process.env of the data route: each variable's text or undefined
    sheetsApi,             \* what sheets.spreadsheets.values.get settles to for each tab
    response,              \* the NextResponse of the data route's GET, Null before the request
    dataToSend,            \* generateAiSummary's dataToSend, Null while none was built
    aiSummary,             \* useState aiSummary
    aiError,               \* useState aiError
    aiLoading,             \* useState aiLoading
    aiChartSuggestions     \* useState aiChartSuggestions

vars == <<clientTz, serverTz, browser, rawMbrData, startDate, endDate,
          filteredDataAndMetrics, dateA, dateB, clientDates, serverDates,
          clientDays, serverDays, measured, pc, monthlyJoinersData,
          sheetRows, parsed, processEnv, sheetsApi, response,
          dataToSend, aiSummary, aiError, aiLoading, aiChartSuggestions>>

HostVars == <<clientTz, serverTz, browser>>

DashVars == <<rawMbrData, startDate, endDate, filteredDataAndMetrics, pc,
              monthlyJoinersData>>

DateVars == <<dateA, dateB, clientDates, serverDates, clientDays, serverDays, measured>>

ParserVars == <<sheetRows, parsed>>

RouteVars == <<processEnv, sheetsApi, response>>

SummaryVars == <<dataToSend, aiSummary, aiError, aiLoading, aiChartSuggestions>>

-----------------------------------------------------------------------------
(* Characters and text *)

Digits == <<"0", "1", "2", "3", "4", "5", "6", "7", "8", "9">>

DigitChars == {Digits[i] : i \in 1..10}

UpperChars == {"A", "B", "C", "D", "E", "F", "G", "H", "I", "J", "K", "L", "M",
               "N", "O", "P", "Q", "R", "S", "T", "U", "V", "W", "X", "Y", "Z"}

LowerChars == {"a", "b", "c", "d", "e", "f", "g", "h", "i", "j", "k", "l", "m",
               "n", "o", "p", "q", "r", "s", "t", "u", "v", "w", "x", "y", "z"}

\* [A-Za-z]
AlphaChars == UpperChars \cup LowerChars

\* [-/] and [/-]
DashOrSlash == {"-", "/"}

\* [-]
DashOnly == {"-"}

\* the JavaScript value undefined (an absent key of a row); no text equals it
Undefined == <<"undefined">>

\* the empty string ''
EmptyText == <<>>

\* JavaScript truthiness of a string-or-undefined value
Truthy(v) == v # Undefined /\ v # EmptyText

\* a || b on string-or-undefined values
OrElse(a, b) == IF Truthy(a) THEN a ELSE b

DigitVal(c) == CHOOSE i \in 0..9 : Digits[i + 1] = c

\* parseInt(s, 10) of a text of decimal digits
RECURSIVE parseInt(_)
parseInt(s) ==
    IF Len(s) = 0 THEN 0
    ELSE 10 * parseInt(SubSeq(s, 1, Len(s) - 1)) + DigitVal(s[Len(s)])

\* The shape shared by the source's three-part patterns
\*   ^(C1{W1})[S1](C2{W2})[S2](C3{W3})$
\* with W1, W2, W3 the allowed lengths of the groups.  MatchFits says that
\* the text splits into groups of the lengths w; MatchGroups cuts them out.
MatchFits(s, w, C1, S1, C2, S2, C3) ==
    /\ Len(s) = w[1] + w[2] + w[3] + 2
    /\ \A i \in 1..w[1] : s[i] \in C1
    /\ s[w[1] + 1] \in S1
    /\ \A i \in (w[1] + 2)..(w[1] + w[2] + 1) : s[i] \in C2
    /\ s[w[1] + w[2] + 2] \in S2
    /\ \A i \in (w[1] + w[2] + 3)..Len(s) : s[i] \in C3

MatchGroups(s, w) ==
    << SubSeq(s, 1, w[1]),
       SubSeq(s, w[1] + 2, w[1] + w[2] + 1),
       SubSeq(s, w[1] + w[2] + 3, Len(s)) >>

\* The result is the three captured groups, or <<>> for "no match"
\* (String.match returning null).
MatchParts(s, W1, C1, S1, W2, C2, S2, W3, C3) ==
    IF \E w \in W1 \X W2 \X W3 : MatchFits(s, w, C1, S1, C2, S2, C3)
    THEN MatchGroups(s, CHOOSE w \in W1 \X W2 \X W3 :
                            MatchFits(s, w, C1, S1, C2, S2, C3))
    ELSE <<>>

\* /^(\d{1,2})[-/]([A-Za-z]{3})[-/](\d{4})$/
partsDDMonYYYY(s) ==
    MatchParts(s, {1, 2}, DigitChars, DashOrSlash, {3}, AlphaChars,
               DashOrSlash, {4}, DigitChars)

\* the client's second pattern accepting '/' as well
partsYMDEitherSeparator(s) ==
    MatchParts(s, {4}, DigitChars, DashOrSlash, {1, 2}, DigitChars,
               DashOrSlash, {1, 2}, DigitChars)

\* client: /^(\d{4})[-](\d{1,2})[-](\d{1,2})$/
partsYMD(s) ==
    MatchParts(s, {4}, DigitChars, DashOnly, {1, 2}, DigitChars,
               DashOnly, {1, 2}, DigitChars)

\* server: /^(\d{1,2})[/-](\d{1,2})[/-](\d{4})$/
partsMDYServer(s) ==
    MatchParts(s, {1, 2}, DigitChars, DashOrSlash, {1, 2}, DigitChars,
               DashOrSlash, {4}, DigitChars)

\* server: /^(\d{4})[/-](\d{1,2})[/-](\d{1,2})$/
partsYMDServer(s) ==
    MatchParts(s, {4}, DigitChars, DashOrSlash, {1, 2}, DigitChars,
               DashOrSlash, {1, 2}, DigitChars)

-----------------------------------------------------------------------------
(* Calendar arithmetic of the host's Date *)

MinutesPerDay == 1440

\* floor division and modulus, also for a negative dividend
FloorDiv(a, b) == IF a >= 0 THEN a \div b ELSE -(((-a) + b - 1) \div b)

FloorMod(a, b) == a - b * FloorDiv(a, b)

\* day number (days since 1970-01-01) of the civil date y-m-d, m in 1..12;
\* yy is the year counted from March, mp the month counted from March
DaysFromEra(era, yoe, doy) ==
    era * 146097 + yoe * 365 + yoe \div 4 - yoe \div 100 + doy - 719468

DaysFromMarchYear(yy, mp, d) ==
    DaysFromEra(FloorDiv(yy, 400), FloorMod(yy, 400), (153 * mp + 2) \div 5 + d - 1)

DaysFromCivil(y, m, d) ==
    DaysFromMarchYear(IF m <= 2 THEN y - 1 ELSE y, IF m > 2 THEN m - 3 ELSE m + 9, d)

\* ECMAScript MakeDay(year, month, date): month index and day may overflow
MakeDay(year, monthIndex, day) ==
    DaysFromCivil(year + FloorDiv(monthIndex, 12), FloorMod(monthIndex, 12) + 1, 1)
        + day - 1

IsLeap(y) == (y % 4 = 0 /\ y % 100 # 0) \/ y % 400 = 0

DaysInMonth(y, m) ==
    IF m = 2 THEN (IF IsLeap(y) THEN 29 ELSE 28)
    ELSE IF m \in {4, 6, 9, 11} THEN 30 ELSE 31

\* Date values: null, a Date holding a time value, or a Date holding NaN
\* ("Invalid Date", which is an object and therefore truthy).
NullDate == [kind |-> "null", nan |-> FALSE, time |-> 0]

DateOf(t) == [kind |-> "Date", nan |-> FALSE, time |-> t]

InvalidDate == [kind |-> "Date", nan |-> TRUE, time |-> 0]

\* truthiness of a Date | null
IsObject(d) == d.kind = "Date"

IsValidDate(d) == d.kind = "Date" /\ ~d.nan

\* new Date(year, monthIndex, day): local midnight; years 0..99 mean 1900..1999
NewLocalDate(year, monthIndex, day, tz) ==
    DateOf(MakeDay(IF year >= 0 /\ year <= 99 THEN 1900 + year ELSE year,
                   monthIndex, day) * MinutesPerDay - tz)

\* date comparison a >= b, a <= b: false when either time value is NaN
DateGE(a, b) == ~a.nan /\ ~b.nan /\ a.time >= b.time

DateLE(a, b) == ~a.nan /\ ~b.nan /\ a.time <= b.time

-----------------------------------------------------------------------------
(* The month table of both date normalizers *)

MonthNames == << <<"J", "a", "n">>, <<"F", "e", "b">>, <<"M", "a", "r">>,
                 <<"A", "p", "r">>, <<"M", "a", "y">>, <<"J", "u", "n">>,
                 <<"J", "u", "l">>, <<"A", "u", "g">>, <<"S", "e", "p">>,
                 <<"O", "c", "t">>, <<"N", "o", "v">>, <<"D", "e", "c">> >>

\* monthMap[name] !== undefined
InMonthMap(name) == \E i \in 1..12 : MonthNames[i] = name

\* monthMap[name], for a name of the table
monthMap(name) == (CHOOSE i \in 1..12 : MonthNames[i] = name) - 1

-----------------------------------------------------------------------------
(* new Date(text): the host's generic date parser *)

UpperSeq == <<"A", "B", "C", "D", "E", "F", "G", "H", "I", "J", "K", "L", "M",
              "N", "O", "P", "Q", "R", "S", "T", "U", "V", "W", "X", "Y", "Z">>

LowerSeq == <<"a", "b", "c", "d", "e", "f", "g", "h", "i", "j", "k", "l", "m",
              "n", "o", "p", "q", "r", "s", "t", "u", "v", "w", "x", "y", "z">>

ToLower(c) ==
    IF c \in UpperChars THEN LowerSeq[CHOOSE i \in 1..26 : UpperSeq[i] = c] ELSE c

LowerText(s) == [i \in 1..Len(s) |-> ToLower(s[i])]

\* the ISO date-only form YYYY-MM-DD
partsIsoDate(s) ==
    MatchParts(s, {4}, DigitChars, DashOnly, {2}, DigitChars,
               DashOnly, {2}, DigitChars)

\* the ISO date-time form YYYY-MM-DDTHH:mmZ; <<>> or <<date groups, HH, mm>>
partsIsoDateTime(s) ==
    IF /\ Len(s) = 17
       /\ partsIsoDate(SubSeq(s, 1, 10)) # <<>>
       /\ s[11] = "T" /\ s[14] = ":" /\ s[17] = "Z"
       /\ \A i \in {12, 13, 15, 16} : s[i] \in DigitChars
    THEN <<partsIsoDate(SubSeq(s, 1, 10)), SubSeq(s, 12, 13), SubSeq(s, 15, 16)>>
    ELSE <<>>

\* the largest day of month the host accepts in a date text: V8 accepts 31 in
\* every month and lets the day overflow; a strict host checks the calendar
HostMaxDay(host, y, m) == IF host = "v8" THEN 31 ELSE DaysInMonth(y, m)

\* the Date the host builds from the fields of a date text it recognised,
\* t minutes after UTC midnight of y-m-d
HostFields(host, y, m, d, t) ==
    IF m \in 1..12 /\ d >= 1 /\ d <= HostMaxDay(host, y, m)
    THEN DateOf(MakeDay(y, m - 1, d) * MinutesPerDay + t)
    ELSE InvalidDate

\* the month number of a month name in any letter case, 0 for no month
HostMonth(lower) ==
    IF \E i \in 1..12 : LowerText(MonthNames[i]) = lower
    THEN CHOOSE i \in 1..12 : LowerText(MonthNames[i]) = lower
    ELSE 0

\* the second group of a D-Mon-Y match, lower-cased
MonthGroup(dmy) == IF dmy = <<>> THEN <<>> ELSE LowerText(dmy[2])

\* new Date(s), given what the date forms make of s
HostDateOf(s, iso, idt, ymd, mdy, dmy, host, tz) ==
    IF s = Undefined THEN InvalidDate
    ELSE IF iso # <<>>
    THEN HostFields(host, parseInt(iso[1]), parseInt(iso[2]), parseInt(iso[3]), 0)
    ELSE IF idt # <<>>
    THEN IF parseInt(idt[2]) <= 23 /\ parseInt(idt[3]) <= 59
         THEN HostFields(host, parseInt(idt[1][1]), parseInt(idt[1][2]),
                         parseInt(idt[1][3]),
                         60 * parseInt(idt[2]) + parseInt(idt[3]))
         ELSE InvalidDate
    ELSE IF host # "v8" THEN InvalidDate
    ELSE IF ymd # <<>>
    THEN HostFields(host, parseInt(ymd[1]), parseInt(ymd[2]), parseInt(ymd[3]), -tz)
    ELSE IF mdy # <<>>
    THEN HostFields(host, parseInt(mdy[3]), parseInt(mdy[1]), parseInt(mdy[2]), -tz)
    ELSE IF dmy # <<>> /\ HostMonth(MonthGroup(dmy)) # 0
    THEN HostFields(host, parseInt(dmy[3]), HostMonth(MonthGroup(dmy)),
                    parseInt(dmy[1]), -tz)
    ELSE InvalidDate

\* new Date(s).  ISO forms are UTC (date-only and the Z form) on every host.
\* Other texts are implementation-defined: V8 reads Y-M-D, M-D-Y and
\* D-Mon-Y (either separator, month names in any case) as local dates; a
\* strict host rejects them.  Everything else is Invalid Date.
HostDate(s, host, tz) ==
    HostDateOf(s, partsIsoDate(s), partsIsoDateTime(s), partsYMDServer(s),
               partsMDYServer(s), partsDDMonYYYY(s), host, tz)

-----------------------------------------------------------------------------
(* Client date normalizer and elapsed days (dashboard/page.tsx) *)

\* the body of parseDateForFiltering after its guard: p1 and p2 are the
\* matches of its two patterns, date is new Date(dateString)
parseDateForFilteringOf(p1, p2, date, tz) ==
    IF p1 # <<>> /\ InMonthMap(p1[2])
    THEN NewLocalDate(parseInt(p1[3]), monthMap(p1[2]), parseInt(p1[1]), tz)
    ELSE IF p2 # <<>>
    THEN NewLocalDate(parseInt(p2[1]), parseInt(p2[2]) - 1, parseInt(p2[3]), tz)
    ELSE IF date.nan THEN NullDate ELSE date

\* parseDateForFiltering(dateString), run in a browser `host` at offset tz
parseDateForFiltering(dateString, host, tz) ==
    IF ~Truthy(dateString) THEN NullDate
    ELSE parseDateForFilteringOf(partsDDMonYYYY(dateString), partsYMD(dateString),
                                 HostDate(dateString, host, tz), tz)

\* results of the elapsed-days functions: a number, undefined, or NaN
NumberOf(n) == [kind |-> "number", n |-> n]

UndefinedNumber == [kind |-> "undefined", n |-> 0]

NaNNumber == [kind |-> "NaN", n |-> 0]

\* CeilDays without Math.abs
CeilDaysSigned(a, b) ==
    IF a.nan \/ b.nan THEN NaNNumber
    ELSE NumberOf(((b.time - a.time) + MinutesPerDay - 1) \div MinutesPerDay)

\* Math.ceil(Math.abs(b - a) / (1000 * 60 * 60 * 24)) of two Date objects
CeilDays(a, b) ==
    IF a.nan \/ b.nan THEN NaNNumber
    ELSE LET diffTime == IF b.time >= a.time THEN b.time - a.time ELSE a.time - b.time
         IN  NumberOf((diffTime + MinutesPerDay - 1) \div MinutesPerDay)

\* the tail of both getDaysDifference functions, on the two parsed values
DaysBetween(startDateObj, endDateObj) ==
    IF IsObject(startDateObj) /\ IsObject(endDateObj)
    THEN CeilDays(startDateObj, endDateObj)
    ELSE UndefinedNumber

\* client getDaysDifference(startDateStr, endDateStr)
getDaysDifference(startDateStr, endDateStr, host, tz) ==
    DaysBetween(parseDateForFiltering(startDateStr, host, tz),
                parseDateForFiltering(endDateStr, host, tz))

-----------------------------------------------------------------------------
(* Server date normalizer and elapsed days (route.ts).  The server runs on  *)
(* Node, whose generic parser is V8's.                                     *)

\* the template text `${y}-${m}-${d}`
DashJoin(y, m, d) == y \o <<"-">> \o m \o <<"-">> \o d

\* the body of parseDate: p1, pMDY and pYMD are the matches of its three
\* patterns, mdyDate and ymdDate what the host makes of the rewritten texts,
\* date is new Date(dateString)
parseDateOf(p1, pMDY, pYMD, mdyDate, ymdDate, date, tz) ==
    IF p1 # <<>> /\ InMonthMap(p1[2])
    THEN NewLocalDate(parseInt(p1[3]), monthMap(p1[2]), parseInt(p1[1]), tz)
    ELSE IF pMDY # <<>> THEN mdyDate
    ELSE IF pYMD # <<>> THEN ymdDate
    ELSE IF date.nan THEN NullDate ELSE date

\* new Date(`${y}-${m}-${d}`) of the groups named by the positions iy, im, id
\* of a match (NullDate stands in when there is no match and no such call)
DateOfGroups(p, iy, im, id, tz) ==
    IF p = <<>> THEN NullDate
    ELSE HostDate(DashJoin(p[iy], p[im], p[id]), "v8", tz)

\* parseDate(dateString), the closure inside the server's getDaysDifference;
\* dateString is a string (never undefined: the callers test it first)
parseDate(dateString, tz) ==
    parseDateOf(partsDDMonYYYY(dateString), partsMDYServer(dateString),
                partsYMDServer(dateString),
                DateOfGroups(partsMDYServer(dateString), 3, 1, 2, tz),
                DateOfGroups(partsYMDServer(dateString), 1, 2, 3, tz),
                HostDate(dateString, "v8", tz), tz)

\* server getDaysDifference(startDateStr, endDateStr)
getDaysDifferenceServer(startDateStr, endDateStr, tz) ==
    DaysBetween(parseDate(startDateStr, tz), parseDate(endDateStr, tz))

-----------------------------------------------------------------------------
(* Sheet rows and JavaScript Maps *)

\* row[key]: the cell text, or undefined when the row has no such key
Get(row, key) == IF key \in DOMAIN row THEN row[key] ELSE Undefined

\* the status literals compared with ===
Joined == <<"J", "o", "i", "n", "e", "d">>

Declined == <<"D", "e", "c", "l", "i", "n", "e", "d">>

Withdrawn == <<"W", "i", "t", "h", "d", "r", "a", "w", "n">>

Accepted == <<"A", "c", "c", "e", "p", "t", "e", "d">>

\* A Map is the sequence of its <<key, value>> entries in insertion order.
MapHas(m, k) == \E i \in 1..Len(m) : m[i][1] = k

\* Map.get of a present key
MapGet(m, k) == m[CHOOSE i \in 1..Len(m) : m[i][1] = k][2]

\* Map.set moving a present key to the last position
MapSetMovesLast(m, k, v) ==
    Append(SelectSeq(m, LAMBDA entry : entry[1] # k), <<k, v>>)

\* Map.set: a present key keeps its position, a new key goes last
MapSet(m, k, v) ==
    IF MapHas(m, k)
    THEN [i \in 1..Len(m) |-> IF m[i][1] = k THEN <<k, v>> ELSE m[i]]
    ELSE Append(m, <<k, v>>)

\* MapCount setting the count to 1 every time
MapCountOnce(m, k) == MapSet(m, k, 1)

\* counts.set(k, (counts.get(k) || 0) + 1)
MapCount(m, k) == MapSet(m, k, (IF MapHas(m, k) THEN MapGet(m, k) ELSE 0) + 1)

\* Array.from(counts.entries()).map(([label, count]) => ({label, count}))
MapEntries(m) == [i \in 1..Len(m) |-> [label |-> m[i][1], count |-> m[i][2]]]

Front(s) == SubSeq(s, 1, Len(s) - 1)

Last(s) == s[Len(s)]

-----------------------------------------------------------------------------
(* Date-range filter of the dashboard (filteredDataAndMetrics, first half) *)

\* InRange with the bounds excluded: date > start, date < end
InRangeExclusive(start, end, date) ==
    /\ (~IsObject(start) \/ (IsObject(date) /\ DateGE(date, start) /\ date.time # start.time))
    /\ (~IsObject(end) \/ (IsObject(date) /\ DateLE(date, end) /\ date.time # end.time))

\* InRange asking for a date even when no bound is given
InRangeNeedsDate(start, end, date) ==
    /\ IsObject(date)
    /\ (~IsObject(start) \/ DateGE(date, start))
    /\ (~IsObject(end) \/ DateLE(date, end))

\* (!start || (date && date >= start)) && (!end || (date && date <= end))
InRange(start, end, date) ==
    /\ (~IsObject(start) \/ (IsObject(date) /\ DateGE(date, start)))
    /\ (~IsObject(end) \/ (IsObject(date) /\ DateLE(date, end)))

\* rawMbrData.mcubeData.find(mRow => mRow['RMG ID']?.toString() === rmgId):
\* the first such row, or undefined (here: a row without keys)
NoRow == [k \in {} |-> Undefined]

FindByRmgId(mcubeData, rmgId) ==
    IF \E i \in 1..Len(mcubeData) : Get(mcubeData[i], "RMG ID") = rmgId
    THEN mcubeData[CHOOSE i \in 1..Len(mcubeData) :
                      /\ Get(mcubeData[i], "RMG ID") = rmgId
                      /\ \A j \in 1..(i - 1) : Get(mcubeData[j], "RMG ID") # rmgId]
    ELSE NoRow

\* relevantDate preferring the Last Status Change Date to the decline date
relevantDateLastChangeFirst(row, mcubeData, host, tz) ==
    LET status == Get(row, "Hiring Status")
    IN  IF status = Joined
        THEN parseDateForFiltering(Get(row, "Joining Date"), host, tz)
        ELSE IF status = Declined \/ status = Withdrawn
        THEN parseDateForFiltering(OrElse(Get(row, "Last Status Change Date"),
                                          Get(row, "Offer Declined Date")),
                                   host, tz)
        ELSE LET mcubeReq == FindByRmgId(mcubeData, Get(row, "RMG ID"))
             IN  parseDateForFiltering(Get(mcubeReq, "Request Created Date"), host, tz)

\* the relevantDate of a candidate row, as the filter callback computes it
relevantDate(row, mcubeData, host, tz) ==
    LET status == Get(row, "Hiring Status")
    IN  IF status = Joined
        THEN parseDateForFiltering(Get(row, "Joining Date"), host, tz)
        ELSE IF status = Declined \/ status = Withdrawn
        THEN parseDateForFiltering(OrElse(Get(row, "Offer Declined Date"),
                                          Get(row, "Last Status Change Date")),
                                   host, tz)
        ELSE LET mcubeReq == FindByRmgId(mcubeData, Get(row, "RMG ID"))
             IN  parseDateForFiltering(Get(mcubeReq, "Request Created Date"), host, tz)

\* FilterByColumn with the bounds excluded
FilterByColumnExclusive(rows, key, start, end, host, tz) ==
    LET keep(row) ==
            InRangeExclusive(start, end, parseDateForFiltering(Get(row, key), host, tz))
    IN  SelectSeq(rows, keep)

\* rows.filter(row => in range by row[key])
FilterByColumn(rows, key, start, end, host, tz) ==
    LET keep(row) == InRange(start, end, parseDateForFiltering(Get(row, key), host, tz))
    IN  SelectSeq(rows, keep)

filteredTaTrackerData(data, start, end, host, tz) ==
    LET keep(row) == InRange(start, end, relevantDate(row, data.mcubeData, host, tz))
    IN  SelectSeq(data.taTrackerData, keep)

\* the five filtered record sets for the parsed bounds start, end
FilterDataOf(data, start, end, host, tz) ==
    [ mcubeData |->
          FilterByColumn(data.mcubeData, "Request Created Date", start, end, host, tz),
      taTrackerData |-> filteredTaTrackerData(data, start, end, host, tz),
      offersTrackerData |->
          FilterByColumn(data.offersTrackerData, "Offer Date", start, end, host, tz),
      vendorConsolidatedData |->
          FilterByColumn(data.vendorConsolidatedData, "Submission Date", start, end, host, tz),
      interviewListData |->
          FilterByColumn(data.interviewListData, "Interview Date", start, end, host, tz) ]

\* FilterData taking the start for the end when no end is given
FilterDataEndDefaultsToStart(data, startText, endText, host, tz) ==
    FilterDataOf(data,
                 IF Truthy(startText)
                 THEN parseDateForFiltering(startText, host, tz) ELSE NullDate,
                 IF Truthy(endText)
                 THEN parseDateForFiltering(endText, host, tz)
                 ELSE IF Truthy(startText)
                 THEN parseDateForFiltering(startText, host, tz) ELSE NullDate,
                 host, tz)

\* start = startDate ? parseDateForFiltering(startDate) : null, likewise end,
\* and the five filtered record sets for them
FilterData(data, startText, endText, host, tz) ==
    FilterDataOf(data,
                 IF Truthy(startText)
                 THEN parseDateForFiltering(startText, host, tz) ELSE NullDate,
                 IF Truthy(endText)
                 THEN parseDateForFiltering(endText, host, tz) ELSE NullDate,
                 host, tz)

-----------------------------------------------------------------------------
(* Metrics aggregator (the same code in the dashboard and in the data route, *)
(* each with its own elapsed-days function)                                 *)

\* the getDaysDifference in scope: the dashboard's in a browser `host` at
\* offset tz, or the data route's on the server at offset tz
ClientEnv(host, tz) == [side |-> "client", host |-> host, tz |-> tz]

ServerEnv(tz) == [side |-> "server", host |-> "v8", tz |-> tz]

ElapsedDays(env, startDateStr, endDateStr) ==
    IF env.side = "client"
    THEN getDaysDifference(startDateStr, endDateStr, env.host, env.tz)
    ELSE getDaysDifferenceServer(startDateStr, endDateStr, env.tz)

\* TRUE, once the value has been computed: a loop finishes the first half of
\* its rows before it starts on the second
Done(value) == value = value

\* the callback of mcubeData.forEach on the map m
mcubeRmgRow(m, row) ==
    LET rmgId == Get(row, "RMG ID")
        createdDate == Get(row, "Request Created Date")
    IN  IF Truthy(rmgId) /\ Truthy(createdDate)
        THEN MapSet(m, rmgId, createdDate) ELSE m

\* the callback applied to the rows lo..hi in their order
RECURSIVE mcubeRmgRange(_, _, _, _)
mcubeRmgRange(m, mcubeData, lo, hi) ==
    IF lo > hi THEN m
    ELSE IF lo = hi THEN mcubeRmgRow(m, mcubeData[lo])
    ELSE LET firstHalf == mcubeRmgRange(m, mcubeData, lo, (lo + hi) \div 2)
         IN  IF Done(firstHalf)
             THEN mcubeRmgRange(firstHalf, mcubeData, ((lo + hi) \div 2) + 1, hi)
             ELSE firstHalf

\* mcubeRmgMap: RMG ID -> Request Created Date, a later row overwriting
mcubeRmgMap(mcubeData) == mcubeRmgRange(<<>>, mcubeData, 1, Len(mcubeData))

\* totalDaysToFill += daysToFill, on a number or NaN
AddDays(total, d) ==
    IF total.kind = "NaN" \/ d.kind = "NaN" THEN NaNNumber
    ELSE NumberOf(total.n + d.n)

\* what the loop has before its first row
NoEntries == [details |-> <<>>, totalDaysToFill |-> NumberOf(0), joinedCandidatesCount |-> 0]

\* mcubeRmgMap.get(rmgId)
CreatedDateOf(map, rmgId) == IF MapHas(map, rmgId) THEN MapGet(map, rmgId) ELSE Undefined

\* timeToFillDetails.push({...}); totalDaysToFill += daysToFill;
\* joinedCandidatesCount++
PushEntry(acc, row, rmgId, createdDate, joiningDate, daysToFill) ==
    [details |-> Append(acc.details,
                        [rmgId |-> rmgId,
                         department |-> Get(row, "Department"),
                         role |-> Get(row, "Role"),
                         createdDate |-> createdDate,
                         joiningDate |-> joiningDate,
                         daysToFill |-> daysToFill]),
     totalDaysToFill |-> AddDays(acc.totalDaysToFill, daysToFill),
     joinedCandidatesCount |-> acc.joinedCandidatesCount + 1]

\* TimeToFillRow pushing at most one entry per RMG ID
TimeToFillRowOncePerId(acc, row, rmgId, createdDate, joiningDate, daysToFill) ==
    IF /\ Get(row, "Hiring Status") = Joined
       /\ Truthy(rmgId) /\ Truthy(joiningDate)
       /\ Truthy(createdDate)
       /\ daysToFill.kind # "undefined"
       /\ \A i \in 1..Len(acc.details) : acc.details[i].rmgId # rmgId
    THEN PushEntry(acc, row, rmgId, createdDate, joiningDate, daysToFill)
    ELSE acc

\* TimeToFillRow comparing the status without regard to case
TimeToFillRowAnyCase(acc, row, rmgId, createdDate, joiningDate, daysToFill) ==
    IF /\ Get(row, "Hiring Status") # Undefined
       /\ LowerText(Get(row, "Hiring Status")) = LowerText(Joined)
       /\ Truthy(rmgId) /\ Truthy(joiningDate)
       /\ Truthy(createdDate)
       /\ daysToFill.kind # "undefined"
    THEN PushEntry(acc, row, rmgId, createdDate, joiningDate, daysToFill)
    ELSE acc

\* the body of the forEach callback for one candidate row, daysToFill being
\* getDaysDifference(createdDate, joiningDate)
TimeToFillRow(acc, row, rmgId, createdDate, joiningDate, daysToFill) ==
    IF /\ Get(row, "Hiring Status") = Joined
       /\ Truthy(rmgId) /\ Truthy(joiningDate)
       /\ Truthy(createdDate)
       /\ daysToFill.kind # "undefined"
    THEN PushEntry(acc, row, rmgId, createdDate, joiningDate, daysToFill)
    ELSE acc

\* one round of the loop: the row's cells, its creation date and elapsed days
TimeToFillStep(acc, row, map, env) ==
    TimeToFillRow(acc, row, Get(row, "RMG ID"),
                  CreatedDateOf(map, Get(row, "RMG ID")),
                  Get(row, "Joining Date"),
                  ElapsedDays(env, CreatedDateOf(map, Get(row, "RMG ID")),
                              Get(row, "Joining Date")))

\* the callback applied to the rows lo..hi in their order
RECURSIVE TimeToFillRange(_, _, _, _, _, _)
TimeToFillRange(acc, taTrackerData, lo, hi, map, env) ==
    IF lo > hi THEN acc
    ELSE IF lo = hi THEN TimeToFillStep(acc, taTrackerData[lo], map, env)
    ELSE LET firstHalf ==
                 TimeToFillRange(acc, taTrackerData, lo, (lo + hi) \div 2, map, env)
         IN  IF Done(firstHalf)
             THEN TimeToFillRange(firstHalf, taTrackerData, ((lo + hi) \div 2) + 1, hi,
                                  map, env)
             ELSE firstHalf

\* the loop over the candidate rows: the entries pushed, the running total
\* and the count of entries
TimeToFillLoop(taTrackerData, map, env) ==
    TimeToFillRange(NoEntries, taTrackerData, 1, Len(taTrackerData), map, env)

\* a scalar metric: undefined, NaN, or the exact quotient num / den
UndefinedMetric == [kind |-> "undefined", num |-> 0, den |-> 1]

NaNMetric == [kind |-> "NaN", num |-> 0, den |-> 1]

Quotient(num, den) == [kind |-> "number", num |-> num, den |-> den]

\* overallTimeToFillAverageDays dividing without the guard: 0 / 0 is NaN
overallTimeToFillAverageDaysUnguarded(loop) ==
    IF loop.totalDaysToFill.kind = "NaN" \/ loop.joinedCandidatesCount = 0 THEN NaNMetric
    ELSE Quotient(loop.totalDaysToFill.n, loop.joinedCandidatesCount)

\* joinedCandidatesCount > 0 ? totalDaysToFill / joinedCandidatesCount : undefined
overallTimeToFillAverageDays(loop) ==
    IF loop.joinedCandidatesCount > 0
    THEN IF loop.totalDaysToFill.kind = "NaN" THEN NaNMetric
         ELSE Quotient(loop.totalDaysToFill.n, loop.joinedCandidatesCount)
    ELSE UndefinedMetric

\* the callback of a breakdown's forEach on the map m
CountRow(m, row, key, joinedOnly) ==
    IF (~joinedOnly \/ Get(row, "Hiring Status") = Joined) /\ Truthy(Get(row, key))
    THEN MapCount(m, Get(row, key)) ELSE m

\* the callback applied to the rows lo..hi in their order
RECURSIVE CountRange(_, _, _, _, _, _)
CountRange(m, rows, lo, hi, key, joinedOnly) ==
    IF lo > hi THEN m
    ELSE IF lo = hi THEN CountRow(m, rows[lo], key, joinedOnly)
    ELSE LET firstHalf == CountRange(m, rows, lo, (lo + hi) \div 2, key, joinedOnly)
         IN  IF Done(firstHalf)
             THEN CountRange(firstHalf, rows, ((lo + hi) \div 2) + 1, hi, key, joinedOnly)
             ELSE firstHalf

\* occurrence counts of row[key] over the rows, truthy values only; with
\* joinedOnly, only over the rows whose Hiring Status is 'Joined'
CountBy(rows, key, joinedOnly) == CountRange(<<>>, rows, 1, Len(rows), key, joinedOnly)

\* totalOffersMade and acceptedOffers
CountTruthy(rows, key) == Cardinality({i \in 1..Len(rows) : Truthy(Get(rows[i], key))})

CountEqual(rows, key, text) == Cardinality({i \in 1..Len(rows) : Get(rows[i], key) = text})

\* offerAcceptanceRate with every offer record in the denominator
offerAcceptanceRateOfAllRecords(offersTrackerData) ==
    IF Len(offersTrackerData) > 0
    THEN Quotient(CountEqual(offersTrackerData, "Offer Status", Accepted) * 100,
                  Len(offersTrackerData))
    ELSE UndefinedMetric

\* totalOffersMade > 0 ? (acceptedOffers / totalOffersMade) * 100 : undefined
offerAcceptanceRate(offersTrackerData) ==
    LET totalOffersMade == CountTruthy(offersTrackerData, "Offer Status")
        acceptedOffers == CountEqual(offersTrackerData, "Offer Status", Accepted)
    IN  IF totalOffersMade > 0 THEN Quotient(acceptedOffers * 100, totalOffersMade)
        ELSE UndefinedMetric

\* the metrics object, given the outcome of the time-to-fill loop
MetricsOf(loop, taTrackerData, offersTrackerData, vendorConsolidatedData) ==
    [ timeToFillDetails |-> loop.details,
      overallTimeToFillAverageDays |-> overallTimeToFillAverageDays(loop),
      offerAcceptanceRate |-> offerAcceptanceRate(offersTrackerData),
      offerStatusBreakdown |->
          MapEntries(CountBy(offersTrackerData, "Offer Status", FALSE)),
      sourceOfHireBreakdown |-> MapEntries(CountBy(taTrackerData, "Source", TRUE)),
      joinersByDepartment |-> MapEntries(CountBy(taTrackerData, "Department", TRUE)),
      vendorSubmissionsByVendor |->
          MapEntries(CountBy(vendorConsolidatedData, "Vendor Name", FALSE)) ]

\* the metrics object computed from four of the record sets
Metrics(mcubeData, taTrackerData, offersTrackerData, vendorConsolidatedData, env) ==
    MetricsOf(TimeToFillLoop(taTrackerData, mcubeRmgMap(mcubeData), env),
              taTrackerData, offersTrackerData, vendorConsolidatedData)

\* the five record sets d with the metrics computed from them
WithMetrics(d, env) ==
    [ kind |-> "MBRData",
      mcubeData |-> d.mcubeData,
      taTrackerData |-> d.taTrackerData,
      offersTrackerData |-> d.offersTrackerData,
      vendorConsolidatedData |-> d.vendorConsolidatedData,
      interviewListData |-> d.interviewListData,
      metrics |-> Metrics(d.mcubeData, d.taTrackerData, d.offersTrackerData,
                          d.vendorConsolidatedData, env) ]

\* the useMemo with the requisition lookup built from the raw requisitions
ComputeFilteredDataAndMetricsRawLookup(raw, startText, endText, host, tz) ==
    [ WithMetrics(FilterData(raw, startText, endText, host, tz), ClientEnv(host, tz))
      EXCEPT !.metrics =
          Metrics(raw.mcubeData,
                  FilterData(raw, startText, endText, host, tz).taTrackerData,
                  FilterData(raw, startText, endText, host, tz).offersTrackerData,
                  FilterData(raw, startText, endText, host, tz).vendorConsolidatedData,
                  ClientEnv(host, tz)) ]

\* the dashboard's useMemo: the filtered record sets and the metrics
\* recomputed from them
ComputeFilteredDataAndMetrics(raw, startText, endText, host, tz) ==
    WithMetrics(FilterData(raw, startText, endText, host, tz), ClientEnv(host, tz))

\* the data route's response for the five parsed record sets
ServerResponse(data, tz) == WithMetrics(data, ServerEnv(tz))

-----------------------------------------------------------------------------
(* Monthly joiners trend of the dashboard (getMonthlyJoinersData)           *)

\* the civil year and month of a day number: the year of the 400-year era,
\* the day of the year counted from 1 March, the month counted from March
YearOfEra(doe) == (doe - doe \div 1460 + doe \div 36524 - doe \div 146096) \div 365

DayOfMarchYear(doe, yoe) == doe - (365 * yoe + yoe \div 4 - yoe \div 100)

MonthFromMarch(doy) == (5 * doy + 2) \div 153

MonthOfEraDay(doe) == MonthFromMarch(DayOfMarchYear(doe, YearOfEra(doe)))

\* z is the day number counted from 0000-03-01
CivilYear(z) ==
    YearOfEra(FloorMod(z, 146097)) + 400 * FloorDiv(z, 146097)
        + (IF MonthOfEraDay(FloorMod(z, 146097)) < 10 THEN 0 ELSE 1)

CivilMonthIndex(mp) == IF mp < 10 THEN mp + 2 ELSE mp - 10

\* the local day number of a Date, counted from 0000-03-01
LocalDay(date, tz) == FloorDiv(date.time + tz, MinutesPerDay) + 719468

\* date.getFullYear() and date.getMonth() (0..11), in local time
getFullYear(date, tz) == CivilYear(LocalDay(date, tz))

getMonth(date, tz) == CivilMonthIndex(MonthOfEraDay(FloorMod(LocalDay(date, tz), 146097)))

\* Number.prototype.toString of a natural number
RECURSIVE ToText(_)
ToText(n) ==
    IF n < 10 THEN <<Digits[n + 1]>>
    ELSE ToText(n \div 10) \o <<Digits[(n % 10) + 1]>>

\* monthKey without padStart
monthKeyUnpadded(joiningDate, tz) ==
    ToText(getFullYear(joiningDate, tz)) \o <<"-">> \o ToText(getMonth(joiningDate, tz) + 1)

\* text.padStart(2, '0')
PadStart2(text) == IF Len(text) < 2 THEN <<"0">> \o text ELSE text

\* `${joiningDate.getFullYear()}-${(joiningDate.getMonth() + 1).toString().padStart(2, '0')}`
monthKey(joiningDate, tz) ==
    ToText(getFullYear(joiningDate, tz)) \o <<"-">>
        \o PadStart2(ToText(getMonth(joiningDate, tz) + 1))

\* the forEach callback for one candidate row, joiningDate being
\* parseDateForFiltering(row['Joining Date'].toString())
MonthlyCountRow(map, row, joiningDate, tz) ==
    IF /\ Get(row, "Hiring Status") = Joined
       /\ Truthy(Get(row, "Joining Date"))
       /\ IsObject(joiningDate)
    THEN MapCount(map, monthKey(joiningDate, tz))
    ELSE map

\* monthlyCountsMap after the forEach over the candidate rows
\* the callback applied to the rows lo..hi in their order
RECURSIVE monthlyCountsRange(_, _, _, _, _, _)
monthlyCountsRange(map, taTrackerData, lo, hi, host, tz) ==
    IF lo > hi THEN map
    ELSE IF lo = hi
    THEN MonthlyCountRow(map, taTrackerData[lo],
                         parseDateForFiltering(Get(taTrackerData[lo], "Joining Date"),
                                               host, tz),
                         tz)
    ELSE LET firstHalf ==
                 monthlyCountsRange(map, taTrackerData, lo, (lo + hi) \div 2, host, tz)
         IN  IF Done(firstHalf)
             THEN monthlyCountsRange(firstHalf, taTrackerData, ((lo + hi) \div 2) + 1, hi,
                                     host, tz)
             ELSE firstHalf

monthlyCountsMap(taTrackerData, host, tz) ==
    monthlyCountsRange(<<>>, taTrackerData, 1, Len(taTrackerData), host, tz)

\* the UTF-16 code unit of a character of a month key
CodeUnit(c) == IF c = "-" THEN 45 ELSE 48 + DigitVal(c)

\* a < b as Array.prototype.sort compares strings by default
RECURSIVE LessText(_, _)
LessText(a, b) ==
    IF b = <<>> THEN FALSE
    ELSE IF a = <<>> THEN TRUE
    ELSE IF a[1] = b[1] THEN LessText(Tail(a), Tail(b))
    ELSE CodeUnit(a[1]) < CodeUnit(b[1])

\* Array.from(map.keys()).sort()
sortedMonths(map) ==
    CHOOSE q \in [1..Len(map) -> {map[i][1] : i \in 1..Len(map)}] :
        \A i, j \in 1..Len(map) : i < j => LessText(q[i], q[j])

\* sortedMonths.map(monthKey => ({month, count}))
MonthlyEntries(map, months) ==
    [i \in 1..Len(months) |-> [month |-> months[i], count |-> MapGet(map, months[i])]]

MonthlyEntriesOf(map) == MonthlyEntries(map, sortedMonths(map))

\* getMonthlyJoinersData() over mbrData.taTrackerData
getMonthlyJoinersData(mbrData, host, tz) ==
    MonthlyEntriesOf(monthlyCountsMap(mbrData.taTrackerData, host, tz))

\* the figure 'Total Joined Candidates' of the render
totalJoinedCandidates(mbrData) == Len(mbrData.metrics.timeToFillDetails)

\* filledPositions counting the distinct RMG IDs of the Joined candidates
filledPositionsDistinct(mbrData) ==
    Cardinality({Get(mbrData.taTrackerData[i], "RMG ID") :
                    i \in {j \in 1..Len(mbrData.taTrackerData) :
                              Get(mbrData.taTrackerData[j], "Hiring Status") = Joined}})

\* calculateHiringOverview().filledPositions, the figure 'Filled Positions'
filledPositions(mbrData) ==
    Len(SelectSeq(mbrData.taTrackerData,
                  LAMBDA candidate : Get(candidate, "Hiring Status") = Joined))

-----------------------------------------------------------------------------
(* Row parser of the data route (parseSheetData)                            *)

\* what String.prototype.trim removes
Whitespace == {" "}

\* text.trim()
Trim(text) ==
    IF \A i \in 1..Len(text) : text[i] \in Whitespace THEN EmptyText
    ELSE SubSeq(text,
                CHOOSE i \in 1..Len(text) :
                    /\ text[i] \notin Whitespace
                    /\ \A j \in 1..(i - 1) : text[j] \in Whitespace,
                CHOOSE i \in 1..Len(text) :
                    /\ text[i] \notin Whitespace
                    /\ \A j \in (i + 1)..Len(text) : text[j] \in Whitespace)

\* !isNaN(Number(value)) && value !== '' for a trimmed text: here the texts
\* that are numeric literals are the runs of decimal digits
IsNumeric(value) ==
    value # EmptyText /\ \A i \in 1..Len(value) : value[i] \in DigitChars

\* response.data.values: a grid (a sequence of rows of cell texts), or
\* undefined when the sheet has no values
NoValues == [kind |-> "undefined"]

GridOf(values) == [kind |-> "grid", values |-> values]

\* a string value of a record (a number value is NumberOf(n))
StringOf(text) == [kind |-> "string", text |-> text]

\* row[index] ? row[index].trim() : '', then Number(value) when numeric
CellValue(row, index) ==
    IF index <= Len(row) /\ row[index] # EmptyText
    THEN IF IsNumeric(Trim(row[index]))
         THEN NumberOf(parseInt(Trim(row[index])))
         ELSE StringOf(Trim(row[index]))
    ELSE StringOf(EmptyText)

\* the index whose assignment rowData[header] = ... is the last for this header
LastIndexOf(headers, header) ==
    CHOOSE i \in 1..Len(headers) :
        /\ headers[i] = header
        /\ \A j \in (i + 1)..Len(headers) : headers[j] # header

\* the rowData object built by headers.forEach for one data row
RowData(headers, row) ==
    [header \in {headers[i] : i \in 1..Len(headers)} |->
        CellValue(row, LastIndexOf(headers, header))]

\* rows[0].map(header => header.trim())
TrimAll(headerRow) == [i \in 1..Len(headerRow) |-> Trim(headerRow[i])]

\* ParseRows without the slice: the header row is read as a data row too
ParseRowsFromHeader(headers, values) ==
    [r \in 1..Len(values) |-> RowData(headers, values[r])]

\* rows.slice(1).map(row => rowData)
ParseRows(headers, values) ==
    [r \in 1..(Len(values) - 1) |-> RowData(headers, values[r + 1])]

\* parseSheetData(rows)
parseSheetData(grid) ==
    IF grid.kind = "undefined" \/ Len(grid.values) = 0 THEN <<>>
    ELSE ParseRows(TrimAll(grid.values[1]), grid.values)

-----------------------------------------------------------------------------
(* Date texts used as inputs *)

\* '01-May-2024'
T_01_May_2024 == <<"0", "1", "-", "M", "a", "y", "-", "2", "0", "2", "4">>

\* '1/May/2024'
T_1_May_2024_slash == <<"1", "/", "M", "a", "y", "/", "2", "0", "2", "4">>

\* '2024-05-01'
T_2024_05_01 == <<"2", "0", "2", "4", "-", "0", "5", "-", "0", "1">>

\* '2024/05/01'
T_2024_05_01_slash == <<"2", "0", "2", "4", "/", "0", "5", "/", "0", "1">>

\* '2024-5-1'
T_2024_5_1 == <<"2", "0", "2", "4", "-", "5", "-", "1">>

\* '01-Jan-2024'
T_01_Jan_2024 == <<"0", "1", "-", "J", "a", "n", "-", "2", "0", "2", "4">>

\* '15-Jan-2024'
T_15_Jan_2024 == <<"1", "5", "-", "J", "a", "n", "-", "2", "0", "2", "4">>

\* '01-may-2024'
T_01_may_2024_lower == <<"0", "1", "-", "m", "a", "y", "-", "2", "0", "2", "4">>

\* '01-Foo-2024'
T_01_Foo_2024 == <<"0", "1", "-", "F", "o", "o", "-", "2", "0", "2", "4">>

\* '15-01-2024'
T_15_01_2024 == <<"1", "5", "-", "0", "1", "-", "2", "0", "2", "4">>

\* '05/01/2024'
T_05_01_2024_slash == <<"0", "5", "/", "0", "1", "/", "2", "0", "2", "4">>

\* '2024-13-01'
T_2024_13_01 == <<"2", "0", "2", "4", "-", "1", "3", "-", "0", "1">>

\* '30-Feb-2024'
T_30_Feb_2024 == <<"3", "0", "-", "F", "e", "b", "-", "2", "0", "2", "4">>

\* '2024-05-01T10:30Z'
T_2024_05_01T10_30Z == <<"2", "0", "2", "4", "-", "0", "5", "-", "0", "1", "T", "1", "0", ":", "3", "0", "Z">>

\* 'TBD'
T_TBD == <<"T", "B", "D">>

\* '15-Jun-2024'
T_15_Jun_2024 == <<"1", "5", "-", "J", "u", "n", "-", "2", "0", "2", "4">>

\* '01-Jun-2024'
T_01_Jun_2024 == <<"0", "1", "-", "J", "u", "n", "-", "2", "0", "2", "4">>

\* '10-Jun-2024'
T_10_Jun_2024 == <<"1", "0", "-", "J", "u", "n", "-", "2", "0", "2", "4">>

\* '20-Jun-2024'
T_20_Jun_2024 == <<"2", "0", "-", "J", "u", "n", "-", "2", "0", "2", "4">>

\* '30-Jun-2024'
T_30_Jun_2024 == <<"3", "0", "-", "J", "u", "n", "-", "2", "0", "2", "4">>

\* '01-Jul-2024'
T_01_Jul_2024 == <<"0", "1", "-", "J", "u", "l", "-", "2", "0", "2", "4">>

\* '15-06-2024'
T_15_06_2024 == <<"1", "5", "-", "0", "6", "-", "2", "0", "2", "4">>

\* '2024-06-01'
T_2024_06_01 == <<"2", "0", "2", "4", "-", "0", "6", "-", "0", "1">>

\* '2024-06-30'
T_2024_06_30 == <<"2", "0", "2", "4", "-", "0", "6", "-", "3", "0">>

\* '2025-06-30'
T_2025_06_30 == <<"2", "0", "2", "5", "-", "0", "6", "-", "3", "0">>

\* 'R1'
R1 == <<"R", "1">>

\* 'R2'
R2 == <<"R", "2">>

\* 'joined' and 'accepted': status texts in another case than the literals
JoinedLower == <<"j", "o", "i", "n", "e", "d">>

AcceptedLower == <<"a", "c", "c", "e", "p", "t", "e", "d">>

\* 'Open'
Open == <<"O", "p", "e", "n">>

\* 'Eng'
Eng == <<"E", "n", "g">>

\* 'Ops'
Ops == <<"O", "p", "s">>

\* 'Dev'
Dev == <<"D", "e", "v">>

\* 'Referral'
Referral == <<"R", "e", "f", "e", "r", "r", "a", "l">>

\* 'Portal'
Portal == <<"P", "o", "r", "t", "a", "l">>

\* 'Acme'
Acme == <<"A", "c", "m", "e">>

\* 'Zenith'
Zenith == <<"Z", "e", "n", "i", "t", "h">>
\* the date texts the elapsed-days functions are exercised on
DateTexts ==
    {Undefined, EmptyText,
     T_01_May_2024, T_1_May_2024_slash, T_2024_05_01,
     T_2024_05_01_slash, T_2024_5_1, T_01_Jan_2024,
     T_15_Jan_2024, T_01_may_2024_lower, T_01_Foo_2024,
     T_15_01_2024, T_05_01_2024_slash, T_2024_13_01,
     T_30_Feb_2024, T_2024_05_01T10_30Z, T_TBD}

\* UTC offsets (minutes east) of the hosts: New York winter, UTC, India
TzOffsets == {-300, 0, 330}

\* generic date parsers a browser may have; the server is always V8
Browsers == {"v8", "strict"}

-----------------------------------------------------------------------------
(* Record sets used as inputs *)

\* requisition rows plus candidate rows of one input
MaxRows == 3

MaxOffers == 3

MaxVendor == 2

MaxInterview == 1

\* all sequences over S of length at most n
SeqUpTo(S, n) == UNION {[1..k -> S] : k \in 0..n}

McubeRow(id, created) ==
    ("RMG ID" :> id) @@ ("Request Created Date" :> created)

TaRow(id, status, joining, declinedOn, lastChange, department, source) ==
    ("RMG ID" :> id) @@ ("Hiring Status" :> status) @@ ("Joining Date" :> joining)
    @@ ("Offer Declined Date" :> declinedOn) @@ ("Last Status Change Date" :> lastChange)
    @@ ("Department" :> department) @@ ("Role" :> Dev) @@ ("Source" :> source)

OfferRow(date, status) == ("Offer Date" :> date) @@ ("Offer Status" :> status)

VendorRow(date, vendor) == ("Submission Date" :> date) @@ ("Vendor Name" :> vendor)

InterviewRow(date) == ("Interview Date" :> date) @@ ("Candidate" :> Dev)

McubeRows ==
    { McubeRow(R1, T_01_Jan_2024),
      McubeRow(R1, T_01_Jun_2024),
      McubeRow(R2, T_15_Jun_2024),
      McubeRow(R2, T_TBD),
      McubeRow(EmptyText, T_10_Jun_2024) }

TaRows ==
    { TaRow(R1, Joined, T_15_Jan_2024, EmptyText, EmptyText, Eng, Referral),
      TaRow(R1, Joined, T_15_Jun_2024, EmptyText, EmptyText, Eng, Portal),
      TaRow(R2, Joined, T_01_Jul_2024, EmptyText, EmptyText, Ops, Referral),
      TaRow(R2, Joined, T_30_Jun_2024, EmptyText, EmptyText, EmptyText, EmptyText),
      TaRow(R1, Joined, T_15_06_2024, EmptyText, EmptyText, Ops, Portal),
      TaRow(R1, JoinedLower, T_15_Jan_2024, EmptyText, EmptyText, Eng, Referral),
      TaRow(R2, Joined, T_2024_06_30, EmptyText, EmptyText, Ops, Portal),
      TaRow(R1, Declined, EmptyText, EmptyText, T_20_Jun_2024, Eng, Portal),
      TaRow(R2, Withdrawn, EmptyText, T_2024_06_30, T_01_Jul_2024, Ops, Portal),
      TaRow(R1, Open, EmptyText, EmptyText, EmptyText, Eng, Portal),
      TaRow(EmptyText, Open, EmptyText, EmptyText, EmptyText, Eng, EmptyText) }

OfferRows ==
    { OfferRow(T_15_Jun_2024, Accepted),
      OfferRow(T_01_Jul_2024, Declined),
      OfferRow(T_15_Jun_2024, AcceptedLower),
      OfferRow(T_15_Jun_2024, EmptyText),
      "Offer Date" :> T_01_Jul_2024 }

VendorRows ==
    { VendorRow(T_2024_06_30, Acme),
      VendorRow(T_TBD, Zenith),
      VendorRow(T_01_Jun_2024, EmptyText) }

\* an interview sheet may lack the 'Interview Date' column altogether
InterviewRows == {InterviewRow(T_15_Jun_2024), InterviewRow(T_01_Jul_2024)}

InterviewRowsNoDate == {"Candidate" :> Dev}

DataOf(mcube, ta, offers, vendor, interviews) ==
    [ mcubeData |-> mcube, taTrackerData |-> ta, offersTrackerData |-> offers,
      vendorConsolidatedData |-> vendor, interviewListData |-> interviews ]

\* the parsed record sets the data route may hand to the dashboard:
\* requisitions with candidates, or offers, or vendor submissions with interviews
Datasets ==
    UNION { { DataOf(m, t, <<>>, <<>>, <<>>) :
                  m \in [1..k -> McubeRows], t \in SeqUpTo(TaRows, MaxRows - k) } :
            k \in 0..MaxRows }
    \cup { DataOf(<<>>, <<>>, o, <<>>, <<>>) : o \in SeqUpTo(OfferRows, MaxOffers) }
    \cup { DataOf(<<>>, <<>>, <<>>, v, i) :
               v \in SeqUpTo(VendorRows, MaxVendor),
               i \in SeqUpTo(InterviewRows, MaxInterview)
                     \cup SeqUpTo(InterviewRowsNoDate, MaxInterview) }

\* the values a date input can hold: '' or YYYY-MM-DD
StartTexts == {EmptyText, T_2024_05_01, T_2024_06_01}

EndTexts == {EmptyText, T_2024_06_30, T_2025_06_30}

\* host configurations of one deployment
HostConfigs ==
    { [clientTz |-> 330, serverTz |-> 0, browser |-> "v8"],
      [clientTz |-> 0, serverTz |-> 330, browser |-> "v8"],
      [clientTz |-> -300, serverTz |-> -300, browser |-> "strict"] }

-----------------------------------------------------------------------------
(* The date functions applied to a pair of date texts *)

Null == [kind |-> "null"]

\* parseSheetData is not part of this specification
ParserIdle ==
    /\ sheetRows = NoValues
    /\ parsed = Null

\* the data route's GET is not part of this specification
RouteIdle ==
    /\ processEnv = Null
    /\ sheetsApi = Null
    /\ response = Null

\* no summary has been asked for
SummaryIdle ==
    /\ dataToSend = Null
    /\ aiSummary = Null
    /\ aiError = Null
    /\ aiLoading = FALSE
    /\ aiChartSuggestions = <<>>

\* the dashboard is not part of this specification
DashboardIdle ==
    /\ rawMbrData = Null
    /\ startDate = EmptyText
    /\ endDate = EmptyText
    /\ filteredDataAndMetrics = Null
    /\ pc = "loading"
    /\ monthlyJoinersData = Null

InitDates ==
    /\ clientTz \in TzOffsets
    /\ serverTz \in TzOffsets
    /\ browser \in Browsers
    /\ dateA \in DateTexts
    /\ dateB \in DateTexts
    /\ clientDates = <<NullDate, NullDate>>
    /\ serverDates = <<NullDate, NullDate>>
    /\ clientDays = UndefinedNumber
    /\ serverDays = UndefinedNumber
    /\ measured = {}
    /\ DashboardIdle
    /\ ParserIdle
    /\ RouteIdle
    /\ SummaryIdle

\* the browser evaluates getDaysDifference(dateA, dateB)
ClientGetDaysDifference ==
    /\ "client" \notin measured
    /\ clientDates' = << parseDateForFiltering(dateA, browser, clientTz),
                         parseDateForFiltering(dateB, browser, clientTz) >>
    /\ clientDays' = getDaysDifference(dateA, dateB, browser, clientTz)
    /\ measured' = measured \cup {"client"}
    /\ UNCHANGED <<HostVars, DashVars, dateA, dateB, serverDates, serverDays,
                   ParserVars, RouteVars, SummaryVars>>

\* the server evaluates its getDaysDifference(dateA, dateB)
ServerGetDaysDifference ==
    /\ "server" \notin measured
    /\ dateA # Undefined /\ dateB # Undefined
    /\ serverDates' = <<parseDate(dateA, serverTz), parseDate(dateB, serverTz)>>
    /\ serverDays' = getDaysDifferenceServer(dateA, dateB, serverTz)
    /\ measured' = measured \cup {"server"}
    /\ UNCHANGED <<HostVars, DashVars, dateA, dateB, clientDates, clientDays,
                   ParserVars, RouteVars, SummaryVars>>

NextDates == ClientGetDaysDifference \/ ServerGetDaysDifference

SpecDates == InitDates /\ [][NextDates]_vars

-----------------------------------------------------------------------------
(* The dashboard page *)

Init ==
    /\ \E h \in HostConfigs :
          /\ clientTz = h.clientTz
          /\ serverTz = h.serverTz
          /\ browser = h.browser
    /\ rawMbrData = Null
    /\ startDate = T_2024_05_01
    /\ endDate = T_2025_06_30
    /\ filteredDataAndMetrics = Null
    /\ pc = "loading"
    /\ monthlyJoinersData = Null
    /\ dateA = Undefined
    /\ dateB = Undefined
    /\ clientDates = <<NullDate, NullDate>>
    /\ serverDates = <<NullDate, NullDate>>
    /\ clientDays = UndefinedNumber
    /\ serverDays = UndefinedNumber
    /\ measured = {}
    /\ ParserIdle
    /\ RouteIdle
    /\ SummaryIdle

\* useMemo(..., [rawMbrData, startDate, endDate]) after a state change
Memo(raw, startText, endText) ==
    IF raw = Null THEN Null
    ELSE ComputeFilteredDataAndMetrics(raw, startText, endText, browser, clientTz)

\* the render after a state change: nothing is derived while there is no data
Render(mbrData) ==
    IF mbrData = Null THEN Null
    ELSE getMonthlyJoinersData(mbrData, browser, clientTz)

\* useEffect on mount: the data route answers with the record sets and its
\* own metrics; setRawMbrData, setLoading(false)
FetchMbrData ==
    /\ pc = "loading"
    /\ \E data \in Datasets :
          /\ rawMbrData' = ServerResponse(data, serverTz)
          /\ filteredDataAndMetrics' = Memo(rawMbrData', startDate, endDate)
    /\ monthlyJoinersData' = Render(filteredDataAndMetrics')
    /\ pc' = "ready"
    /\ UNCHANGED <<HostVars, startDate, endDate, DateVars, ParserVars,
                   RouteVars, SummaryVars>>

\* the fetch fails or answers with an error status: setError, setLoading(false)
FetchMbrDataFails ==
    /\ pc = "loading"
    /\ pc' = "error"
    /\ UNCHANGED <<HostVars, rawMbrData, startDate, endDate,
                   filteredDataAndMetrics, monthlyJoinersData, DateVars, ParserVars,
                   RouteVars, SummaryVars>>

\* onChange of the first date input
SetStartDate ==
    /\ pc = "ready"
    /\ \E value \in StartTexts :
          /\ startDate' = value
          /\ filteredDataAndMetrics' = Memo(rawMbrData, value, endDate)
    /\ monthlyJoinersData' = Render(filteredDataAndMetrics')
    /\ UNCHANGED <<HostVars, rawMbrData, endDate, pc, DateVars, ParserVars,
                   RouteVars, SummaryVars>>

\* onChange of the second date input
SetEndDate ==
    /\ pc = "ready"
    /\ \E value \in EndTexts :
          /\ endDate' = value
          /\ filteredDataAndMetrics' = Memo(rawMbrData, startDate, value)
    /\ monthlyJoinersData' = Render(filteredDataAndMetrics')
    /\ UNCHANGED <<HostVars, rawMbrData, startDate, pc, DateVars, ParserVars,
                   RouteVars, SummaryVars>>

Next == FetchMbrData \/ FetchMbrDataFails \/ SetStartDate \/ SetEndDate

Spec == Init /\ [][Next]_vars

-----------------------------------------------------------------------------
(* parseSheetData applied to a grid *)

\* header cells: 'Name', 'Age', 'Id', and 'Name' with surrounding blanks
H_Name == <<"N", "a", "m", "e">>

H_Age == <<"A", "g", "e">>

H_Id == <<"I", "d">>

H_NameLead == <<" ", "N", "a", "m", "e">>

H_NameTrail == <<"N", "a", "m", "e", " ">>

HeaderRows == { <<H_Name, H_Age>>, <<H_NameLead, H_NameTrail>>,
                <<H_Id, H_Name, H_Id>>, <<H_Id>> }

\* data rows of the cells 'a', 'b', ' 7 ', '42', '' and '  ': empty, shorter
\* than, as long as and longer than two headers
DataRows == { <<>>, << <<"a">> >>, << <<" ", "7", " ">> >>, << <<" ", " ">> >>,
              << <<"a">>, <<"4", "2">> >>, << EmptyText, <<"b">> >>,
              << <<"a">>, <<"b">>, <<"4", "2">> >> }

MaxDataRows == 2

\* undefined, the grid without rows, and a header row with its data rows
Grids ==
    {NoValues, GridOf(<<>>)} \cup
    {GridOf(<<h>> \o d) : h \in HeaderRows, d \in SeqUpTo(DataRows, MaxDataRows)}

\* the dashboard and the date functions are not part of this specification
HostIdle == clientTz = 0 /\ serverTz = 0 /\ browser = "v8"

DatesIdle ==
    /\ dateA = Undefined
    /\ dateB = Undefined
    /\ clientDates = <<NullDate, NullDate>>
    /\ serverDates = <<NullDate, NullDate>>
    /\ clientDays = UndefinedNumber
    /\ serverDays = UndefinedNumber
    /\ measured = {}

InitParser ==
    /\ sheetRows \in Grids
    /\ parsed = Null
    /\ HostIdle
    /\ DatesIdle
    /\ DashboardIdle
    /\ RouteIdle
    /\ SummaryIdle

\* the value a call returned
Returned(value) == [kind |-> "returned", value |-> value]

\* const data = parseSheetData(rows)
ParseSheetData ==
    /\ parsed = Null
    /\ parsed' = Returned(parseSheetData(sheetRows))
    /\ UNCHANGED <<sheetRows, HostVars, DateVars, DashVars, RouteVars, SummaryVars>>

NextParser == ParseSheetData

SpecParser == InitParser /\ [][NextParser]_vars

-----------------------------------------------------------------------------
(* The data route: GET *)

\* the property names the metric code reads from a row
ColumnNames ==
    { "RMG ID", "Request Created Date", "Hiring Status", "Joining Date",
      "Department", "Role", "Source", "Offer Status", "Vendor Name" }

\* a property name as the text of a header cell
Spelling(name) ==
    CASE name = "RMG ID" -> <<"R", "M", "G", " ", "I", "D">>
      [] name = "Request Created Date" ->
             <<"R", "e", "q", "u", "e", "s", "t", " ", "C", "r", "e", "a", "t", "e", "d",
               " ", "D", "a", "t", "e">>
      [] name = "Hiring Status" ->
             <<"H", "i", "r", "i", "n", "g", " ", "S", "t", "a", "t", "u", "s">>
      [] name = "Joining Date" ->
             <<"J", "o", "i", "n", "i", "n", "g", " ", "D", "a", "t", "e">>
      [] name = "Department" -> <<"D", "e", "p", "a", "r", "t", "m", "e", "n", "t">>
      [] name = "Role" -> <<"R", "o", "l", "e">>
      [] name = "Source" -> <<"S", "o", "u", "r", "c", "e">>
      [] name = "Offer Status" ->
             <<"O", "f", "f", "e", "r", " ", "S", "t", "a", "t", "u", "s">>
      [] name = "Vendor Name" ->
             <<"V", "e", "n", "d", "o", "r", " ", "N", "a", "m", "e">>

\* value.toString() of a cell value of a parsed record
cellToString(value) ==
    IF value.kind = "number" THEN ToText(value.n) ELSE value.text

\* a parsed record as the metric code reads it: row[name]?.toString()
RowAsRead(rowData) ==
    [name \in {n \in ColumnNames : Spelling(n) \in DOMAIN rowData} |->
        cellToString(rowData[Spelling(name)])]

RowsAsRead(records) == [i \in 1..Len(records) |-> RowAsRead(records[i])]

\* the five tabs of the spreadsheet
TabNames ==
    { "TA Tracker", "Offers tracker", "Mcube Data", "Interview List",
      "Vendor Consolidated" }

\* a values.get promise that rejects
Rejected == [kind |-> "rejected"]

\* NextResponse.json(body, { status })
JsonResponse(body, status) == [body |-> body, status |-> status]

\* !clientEmail || !privateKey
MissingCredentials(env) ==
    \/ ~Truthy(env["GOOGLE_SERVICE_ACCOUNT_EMAIL"])
    \/ ~Truthy(env["GOOGLE_PRIVATE_KEY"])

\* the spreadsheet ID is never looked at
MissingSpreadsheetIdUnchecked(env) == FALSE

\* !spreadsheetId
MissingSpreadsheetId(env) == ~Truthy(env["GOOGLE_SHEETS_SPREADSHEET_ID"])

\* Promise.all rejects when one of the five requests rejects
AnyRejected(api) == \E tab \in TabNames : api[tab] = Rejected

\* the mbrData object: the five parsed record sets and the metrics computed
\* from them
MbrDataOf(taTrackerData, offersTrackerData, mcubeData, interviewListData, vendorConsolidatedData, tz) ==
    [ mcubeData |-> mcubeData,
      taTrackerData |-> taTrackerData,
      offersTrackerData |-> offersTrackerData,
      vendorConsolidatedData |-> vendorConsolidatedData,
      interviewListData |-> interviewListData,
      metrics |-> Metrics(RowsAsRead(mcubeData), RowsAsRead(taTrackerData),
                          RowsAsRead(offersTrackerData),
                          RowsAsRead(vendorConsolidatedData), ServerEnv(tz)) ]

\* the body of the try block once the configuration is complete and the
\* five requests have settled
FetchAndProcess(api, tz) ==
    IF AnyRejected(api)
    THEN JsonResponse(
             [error |-> "Failed to fetch and process data from Google Sheets"], 500)
    ELSE JsonResponse(
             MbrDataOf(parseSheetData(api["TA Tracker"]),
                       parseSheetData(api["Offers tracker"]),
                       parseSheetData(api["Mcube Data"]),
                       parseSheetData(api["Interview List"]),
                       parseSheetData(api["Vendor Consolidated"]), tz), 200)

\* export async function GET()
GETResponse(env, api, tz) ==
    IF MissingCredentials(env)
    THEN JsonResponse(
             [error |-> "Server configuration error: Missing Google Service Account credentials."],
             500)
    ELSE IF MissingSpreadsheetId(env)
    THEN JsonResponse(
             [error |-> "Server configuration error: Missing Google Sheets Spreadsheet ID."],
             500)
    ELSE FetchAndProcess(api, tz)

\* the environment variables the route reads
EnvNames ==
    {"GOOGLE_SERVICE_ACCOUNT_EMAIL", "GOOGLE_PRIVATE_KEY", "GOOGLE_SHEETS_SPREADSHEET_ID"}

\* an environment variable is unset, set to '', or set to a text
EnvValues == {Undefined, EmptyText, Acme}

\* a header row of property names
HeaderOf(names) == [i \in 1..Len(names) |-> Spelling(names[i])]

\* what a tab's request may settle to: a rejection, no values, or a grid
TabOutcomes(tab) ==
    {Rejected, NoValues} \cup
    CASE tab = "TA Tracker" ->
             { GridOf(<< HeaderOf(<<"RMG ID", "Hiring Status", "Joining Date",
                                    "Department", "Source">>),
                         <<<<"7">>, Joined, T_15_Jun_2024, Eng, Referral>>,
                         <<R1, Open>> >>) }
      [] tab = "Offers tracker" ->
             { GridOf(<< HeaderOf(<<"Offer Status">>), <<Accepted>>, <<Declined>> >>) }
      [] tab = "Mcube Data" ->
             { GridOf(<< HeaderOf(<<"RMG ID", "Request Created Date">>),
                         <<<<"0", "7">>, T_01_Jun_2024>> >>) }
      [] tab = "Interview List" -> { GridOf(<<>>) }
      [] tab = "Vendor Consolidated" ->
             { GridOf(<< HeaderOf(<<"Vendor Name">>), <<Acme>>, <<Acme>> >>) }

ApiOutcomes == {api \in [TabNames -> UNION {TabOutcomes(tab) : tab \in TabNames}] :
                   \A tab \in TabNames : api[tab] \in TabOutcomes(tab)}

InitRoute ==
    /\ processEnv \in [EnvNames -> EnvValues]
    /\ sheetsApi \in ApiOutcomes
    /\ response = Null
    /\ serverTz \in TzOffsets
    /\ clientTz = 0
    /\ browser = "v8"
    /\ DatesIdle
    /\ DashboardIdle
    /\ ParserIdle
    /\ SummaryIdle

\* a request to the data route is answered
GET ==
    /\ response = Null
    /\ response' = GETResponse(processEnv, sheetsApi, serverTz)
    /\ UNCHANGED <<processEnv, sheetsApi, HostVars, DateVars, DashVars, ParserVars,
                   SummaryVars>>

NextRoute == GET

SpecRoute == InitRoute /\ [][NextRoute]_vars

-----------------------------------------------------------------------------
(* The dashboard's request for a summary: generateAiSummary *)

\* the most rows of a record set that are sent to the summary route
MAX_ROWS_FOR_AI_ANALYSIS == 100

\* array.slice(0, count): the rows are taken from the front
sliceFirst(array, count) ==
    SubSeq(array, 1, IF Len(array) > count THEN count ELSE Len(array))

\* array.slice(-count): the start index is max(length - count, 0), and
\* slice(-0) is slice(0)
sliceLast(array, count) ==
    IF count = 0 THEN array
    ELSE SubSeq(array, (IF Len(array) > count THEN Len(array) - count ELSE 0) + 1,
                Len(array))

\* const dataToSend = {...}
dataToSendOf(f) ==
    [ mcubeData |-> sliceLast(f.mcubeData, MAX_ROWS_FOR_AI_ANALYSIS),
      taTrackerData |-> sliceLast(f.taTrackerData, MAX_ROWS_FOR_AI_ANALYSIS),
      offersTrackerData |-> sliceLast(f.offersTrackerData, MAX_ROWS_FOR_AI_ANALYSIS),
      vendorConsolidatedData |->
          sliceLast(f.vendorConsolidatedData, MAX_ROWS_FOR_AI_ANALYSIS),
      interviewListData |-> sliceLast(f.interviewListData, MAX_ROWS_FOR_AI_ANALYSIS),
      metrics |->
        [ overallTimeToFillAverageDays |-> f.metrics.overallTimeToFillAverageDays,
          offerAcceptanceRate |-> f.metrics.offerAcceptanceRate,
          totalJoinedCandidates |-> Len(f.metrics.timeToFillDetails),
          offerStatusBreakdown |-> f.metrics.offerStatusBreakdown,
          sourceOfHireBreakdown |-> f.metrics.sourceOfHireBreakdown,
          joinersByDepartment |-> f.metrics.joinersByDepartment,
          vendorSubmissionsByVendor |-> f.metrics.vendorSubmissionsByVendor,
          timeToFillDetails |->
              sliceLast(f.metrics.timeToFillDetails, MAX_ROWS_FOR_AI_ANALYSIS) ] ]

\* the prompt of the request: a fixed text that is not empty
promptText == <<"A", "l", "r", "i", "g", "h", "t">>

\* an array value of a JSON body (an absent field is NoValues)
ArrayOf(items) == [kind |-> "array", items |-> items]

\* what the text-generation service may answer the summary route: the fetch
\* rejects, a status that is not ok, a body without candidates, or a text
\* that is not JSON or is the JSON of a summary and chart suggestions, either
\* of which may be missing or empty
AiTexts ==
    {[kind |-> "invalid"]} \cup
    {[kind |-> "json", summary |-> summary, chartSuggestions |-> charts] :
        summary \in {Undefined, EmptyText, Acme},
        charts \in {NoValues, ArrayOf(<<>>), ArrayOf(<<[type |-> "BarChart"]>>)}}

GeminiOutcomes ==
    {[kind |-> "rejected"], [kind |-> "not ok", status |-> 429],
     [kind |-> "no candidates"]}
    \cup {[kind |-> "text", text |-> t] : t \in AiTexts}

\* the summary route's POST: the response for a request body {prompt, data},
\* the configured key and what the text-generation service answers
POST(prompt, geminiApiKey, gemini) ==
    IF ~Truthy(prompt)
    THEN JsonResponse([error |-> "Prompt is required in the request body."], 400)
    ELSE IF ~Truthy(geminiApiKey)
    THEN JsonResponse([error |-> "AI service not configured: Missing Gemini API Key."], 500)
    ELSE CASE gemini.kind = "rejected" ->
                 JsonResponse(
                     [error |-> "Internal server error while generating AI summary: ..."], 500)
           [] gemini.kind = "not ok" ->
                 JsonResponse([error |-> "Gemini API Error (...): ..."], gemini.status)
           [] gemini.kind = "no candidates" ->
                 JsonResponse(
                     [error |-> "Failed to get summary from AI due to unexpected response structure."],
                     500)
           [] gemini.kind = "text" ->
                 IF gemini.text.kind = "invalid"
                 THEN JsonResponse([error |-> "AI response was not valid JSON."], 500)
                 ELSE JsonResponse([summary |-> gemini.text.summary,
                                    chartSuggestions |-> gemini.text.chartSuggestions], 200)

\* what the dashboard's fetch of the summary route settles to: a rejection,
\* or the route's response
FetchOutcomes ==
    {Rejected} \cup
    {POST(promptText, key, gemini) : key \in {EmptyText, Acme}, gemini \in GeminiOutcomes}

\* response.ok
Ok(r) == r.status >= 200 /\ r.status <= 299

\* the response carries a summary: result.summary is truthy
HasSummary(r) == Ok(r) /\ "summary" \in DOMAIN r.body /\ Truthy(r.body.summary)

AiErrorOf(message) == [kind |-> "error", message |-> message]

\* setAiSummary(result.summary), when the try block gets there
SummaryOf(outcome) ==
    IF outcome # Rejected /\ HasSummary(outcome) THEN StringOf(outcome.body.summary)
    ELSE Null

\* the chart suggestions of any ok response, whether it carries a summary or not
ChartSuggestionsWithoutSummary(outcome) ==
    IF outcome # Rejected /\ Ok(outcome) /\ "chartSuggestions" \in DOMAIN outcome.body
       /\ outcome.body.chartSuggestions.kind = "array"
    THEN outcome.body.chartSuggestions.items
    ELSE <<>>

\* setAiChartSuggestions(result.chartSuggestions || []), when the try block
\* gets there
ChartSuggestionsOf(outcome) ==
    IF outcome # Rejected /\ HasSummary(outcome)
       /\ outcome.body.chartSuggestions.kind = "array"
    THEN outcome.body.chartSuggestions.items
    ELSE <<>>

\* setAiError(e.message || ...) in the catch block
ErrorOf(outcome) ==
    IF outcome = Rejected
    THEN AiErrorOf("An unknown error occurred while generating AI summary.")
    ELSE IF ~Ok(outcome) THEN AiErrorOf("HTTP error! status: ...")
    ELSE IF ~HasSummary(outcome)
    THEN AiErrorOf("AI summary not found in response or unexpected response structure.")
    ELSE Null

\* the handler, were its record sets cut to their last rows in place (splice)
\* before they are sent
GenerateAiSummaryInPlace ==
    /\ pc = "ready"
    /\ ~aiLoading
    /\ filteredDataAndMetrics # Null
    /\ aiSummary' = Null
    /\ aiChartSuggestions' = <<>>
    /\ aiError' = Null
    /\ aiLoading' = TRUE
    /\ dataToSend' = dataToSendOf(filteredDataAndMetrics)
    /\ filteredDataAndMetrics' =
          [filteredDataAndMetrics EXCEPT
              !.mcubeData = sliceLast(@, MAX_ROWS_FOR_AI_ANALYSIS),
              !.taTrackerData = sliceLast(@, MAX_ROWS_FOR_AI_ANALYSIS),
              !.offersTrackerData = sliceLast(@, MAX_ROWS_FOR_AI_ANALYSIS),
              !.vendorConsolidatedData = sliceLast(@, MAX_ROWS_FOR_AI_ANALYSIS),
              !.interviewListData = sliceLast(@, MAX_ROWS_FOR_AI_ANALYSIS)]
    /\ UNCHANGED <<rawMbrData, startDate, endDate, pc, monthlyJoinersData>>
    /\ UNCHANGED <<HostVars, DateVars, ParserVars, RouteVars>>

\* a click on the 'Generate AI Summary' button, which is rendered once there
\* is data and is disabled while a request is under way: the handler up to
\* its await of the fetch, or to its end when there is no data
GenerateAiSummary ==
    /\ pc = "ready"
    /\ ~aiLoading
    /\ aiSummary' = Null
    /\ aiChartSuggestions' = <<>>
    /\ IF filteredDataAndMetrics = Null
       THEN /\ aiError' = AiErrorOf("No MBR data available to generate a summary.")
            /\ aiLoading' = FALSE
            /\ dataToSend' = dataToSend
       ELSE /\ aiError' = Null
            /\ aiLoading' = TRUE
            /\ dataToSend' = dataToSendOf(filteredDataAndMetrics)
    /\ UNCHANGED <<HostVars, DashVars, DateVars, ParserVars, RouteVars>>

\* the fetch settles and the handler runs to its end: the summary and the
\* chart suggestions are set, or the error is, and finally aiLoading is
\* cleared
SummaryArrives ==
    /\ aiLoading
    /\ \E outcome \in FetchOutcomes :
          /\ aiSummary' = SummaryOf(outcome)
          /\ aiChartSuggestions' = ChartSuggestionsOf(outcome)
          /\ aiError' = ErrorOf(outcome)
    /\ aiLoading' = FALSE
    /\ UNCHANGED <<dataToSend, HostVars, DashVars, DateVars, ParserVars, RouteVars>>

\* how far the record sets of this specification go beyond the most rows sent
MaxOver == 2

\* the lengths of the record sets: none, one, and around the most rows sent
Lengths ==
    {0, 1} \cup (MAX_ROWS_FOR_AI_ANALYSIS - 1)..(MAX_ROWS_FOR_AI_ANALYSIS + MaxOver)

\* the RMG ID or the candidate of the i-th row: 'R1', 'R2', ...
IdOf(i) == <<"R">> \o ToText(i)

\* n requisitions, and n candidates who joined them: the first in January, the
\* others in June
ManyRequisitions(n) ==
    DataOf([i \in 1..n |-> McubeRow(IdOf(i), T_01_Jun_2024)],
           [i \in 1..n |->
               TaRow(IdOf(i), Joined,
                     IF i = 1 THEN T_15_Jan_2024 ELSE T_15_Jun_2024,
                     EmptyText, EmptyText, IF i % 2 = 0 THEN Eng ELSE Ops, Referral)],
           <<>>, <<>>, <<>>)

\* n offers, accepted and declined in turn
ManyOffers(n) ==
    DataOf(<<>>, <<>>,
           [i \in 1..n |->
               ("Candidate" :> IdOf(i))
               @@ OfferRow(T_15_Jun_2024, IF i % 2 = 0 THEN Accepted ELSE Declined)],
           <<>>, <<>>)

\* n vendor submissions and n interviews
ManyVendorRows(n) ==
    DataOf(<<>>, <<>>, <<>>,
           [i \in 1..n |->
               ("Candidate" :> IdOf(i))
               @@ VendorRow(T_15_Jun_2024, IF i % 2 = 0 THEN Acme ELSE Zenith)],
           [i \in 1..n |-> ("Candidate" :> IdOf(i)) @@ InterviewRow(T_15_Jun_2024)])

LongDatasets ==
    {ManyRequisitions(n) : n \in Lengths} \cup {ManyOffers(n) : n \in Lengths}
    \cup {ManyVendorRows(n) : n \in Lengths}

\* the dashboard after the data has arrived and the date inputs were set
InitSummary ==
    /\ \E h \in HostConfigs :
          /\ clientTz = h.clientTz
          /\ serverTz = h.serverTz
          /\ browser = h.browser
    /\ \E data \in LongDatasets : rawMbrData = ServerResponse(data, serverTz)
    /\ startDate \in {EmptyText, T_2024_05_01}
    /\ endDate \in {EmptyText, T_2025_06_30}
    /\ filteredDataAndMetrics = Memo(rawMbrData, startDate, endDate)
    /\ monthlyJoinersData = Render(filteredDataAndMetrics)
    /\ pc = "ready"
    /\ DatesIdle
    /\ ParserIdle
    /\ RouteIdle
    /\ SummaryIdle

NextSummary == GenerateAiSummary \/ SummaryArrives

SpecSummary == InitSummary /\ [][NextSummary]_vars

\* the fetch of the summary route settles: its promise resolves or rejects
FairSpecSummary == SpecSummary /\ WF_vars(SummaryArrives)

-----------------------------------------------------------------------------
(* Notions the properties are stated in *)

Ready == pc = "ready"

\* the normalized value of a date text in the browser
Norm(text) == parseDateForFiltering(text, browser, clientTz)

StartAbsent == startDate = EmptyText

EndAbsent == endDate = EmptyText

\* a normalized relevant date passes the window [startDate, endDate]
PassesWindow(d) ==
    IF StartAbsent /\ EndAbsent THEN TRUE
    ELSE /\ IsValidDate(d)
         /\ StartAbsent \/ d.time >= Norm(startDate).time
         /\ EndAbsent \/ d.time <= Norm(endDate).time

\* the nominal date column of the four sheets that have one
DateColumn ==
    [ mcubeData |-> "Request Created Date",
      offersTrackerData |-> "Offer Date",
      vendorConsolidatedData |-> "Submission Date",
      interviewListData |-> "Interview Date" ]

Absent(v) == v = Undefined \/ v = EmptyText

\* the relevant date text of a candidate row, joined against `requisitions`
RelevantText(row, requisitions) ==
    LET status == Get(row, "Hiring Status")
        same == {i \in 1..Len(requisitions) :
                    Get(requisitions[i], "RMG ID") = Get(row, "RMG ID")}
    IN  CASE status = Joined -> Get(row, "Joining Date")
          [] status \in {Declined, Withdrawn} ->
                IF Absent(Get(row, "Offer Declined Date"))
                THEN Get(row, "Last Status Change Date")
                ELSE Get(row, "Offer Declined Date")
          [] OTHER ->
                IF same = {} THEN Undefined
                ELSE Get(requisitions[CHOOSE i \in same : \A j \in same : i <= j],
                         "Request Created Date")

\* the rows of a sheet whose date text, given by TextOf, passes the window
Retained(rows, TextOf(_)) ==
    LET keep(row) == PassesWindow(Norm(TextOf(row)))
    IN  SelectSeq(rows, keep)

RetainedByColumn(sheet) ==
    LET TextOf(row) == Get(row, DateColumn[sheet])
    IN  Retained(rawMbrData[sheet], TextOf)

RetainedCandidates ==
    LET TextOf(row) == RelevantText(row, rawMbrData.mcubeData)
    IN  Retained(rawMbrData.taTrackerData, TextOf)

\* C1: in every sheet the filter retains exactly the records whose relevant
\* date exists, normalizes and lies in [start, end], both ends included, an
\* absent bound not restricting its side, in the original order.
C1_FilterRetainsWindow ==
    Ready =>
        /\ \A sheet \in DOMAIN DateColumn :
              filteredDataAndMetrics[sheet] = RetainedByColumn(sheet)
        /\ filteredDataAndMetrics.taTrackerData = RetainedCandidates

JoinedOn(text) == TaRow(R1, Joined, text, EmptyText, EmptyText, Eng, Portal)

\* window 2024-06-01 .. 2024-06-30: the candidate joined on 15-Jun-2024 is
\* retained, so is the one joined on the last day 30-Jun-2024, and the one
\* joined on 01-Jul-2024 is dropped.
C1_Witness ==
    /\ Ready
    /\ startDate = T_2024_06_01 /\ endDate = T_2024_06_30
    /\ rawMbrData.taTrackerData =
          << JoinedOn(T_15_Jun_2024),
             TaRow(R2, Joined, T_01_Jul_2024, EmptyText, EmptyText, Ops, Referral),
             TaRow(R2, Joined, T_30_Jun_2024, EmptyText, EmptyText, EmptyText, EmptyText) >>
    /\ filteredDataAndMetrics.taTrackerData =
          << JoinedOn(T_15_Jun_2024),
             TaRow(R2, Joined, T_30_Jun_2024, EmptyText, EmptyText, EmptyText, EmptyText) >>

\* C2: a candidate row is retained according to the Joining Date when it is
\* Joined, to the Offer Declined Date (else the Last Status Change Date) when
\* it is Declined or Withdrawn, and otherwise to the Request Created Date of
\* the requisition with its RMG ID in the unfiltered requisition set.
C2_RelevantDateOfCandidate ==
    Ready =>
        \A i \in 1..Len(rawMbrData.taTrackerData) :
            LET row == rawMbrData.taTrackerData[i]
                kept == \E j \in 1..Len(filteredDataAndMetrics.taTrackerData) :
                            filteredDataAndMetrics.taTrackerData[j] = row
            IN  kept <=> PassesWindow(Norm(RelevantText(row, rawMbrData.mcubeData)))

\* an open candidate is dropped because the first requisition of its RMG ID
\* was created before the window, although a later requisition of the same
\* RMG ID is retained; a withdrawn candidate is kept by its decline date
C2_Witness ==
    /\ Ready
    /\ startDate = T_2024_05_01 /\ endDate = T_2024_06_30
    /\ rawMbrData.mcubeData = <<McubeRow(R1, T_01_Jan_2024), McubeRow(R1, T_01_Jun_2024)>>
    /\ rawMbrData.taTrackerData = <<TaRow(R1, Open, EmptyText, EmptyText, EmptyText, Eng, Portal)>>
    /\ filteredDataAndMetrics.mcubeData = <<McubeRow(R1, T_01_Jun_2024)>>
    /\ filteredDataAndMetrics.taTrackerData = <<>>

FiveSheets ==
    {"mcubeData", "taTrackerData", "offersTrackerData",
     "vendorConsolidatedData", "interviewListData"}

\* C3: with both bounds empty every sheet comes out of the filter identical,
\* in content and order, to the input.
C3_NoBoundsIsIdentity ==
    (Ready /\ StartAbsent /\ EndAbsent) =>
        \A sheet \in FiveSheets : filteredDataAndMetrics[sheet] = rawMbrData[sheet]

\* both bounds empty, and a requisition with an unparseable date is kept
C3_Witness ==
    /\ Ready /\ StartAbsent /\ EndAbsent
    /\ \E i \in 1..Len(filteredDataAndMetrics.mcubeData) :
          filteredDataAndMetrics.mcubeData[i] = McubeRow(R2, T_TBD)

FilteredSets == [sheet \in FiveSheets |-> filteredDataAndMetrics[sheet]]

\* C4: filtering the five filtered sets again with the same bounds returns
\* the same five sets.
C4_FilterIdempotent ==
    Ready =>
        LET again == FilterData(FilteredSets, startDate, endDate, browser, clientTz)
        IN  \A sheet \in FiveSheets : again[sheet] = FilteredSets[sheet]

\* an open candidate is retained through a requisition created on the first
\* day of the window, while another requisition is dropped
C4_Witness ==
    /\ Ready
    /\ startDate = T_2024_06_01
    /\ rawMbrData.mcubeData = <<McubeRow(R1, T_01_Jun_2024), McubeRow(R1, T_01_Jan_2024)>>
    /\ filteredDataAndMetrics.mcubeData = <<McubeRow(R1, T_01_Jun_2024)>>
    /\ filteredDataAndMetrics.taTrackerData =
          <<TaRow(R1, Open, EmptyText, EmptyText, EmptyText, Eng, Portal)>>

\* the creation date the lookup holds for an RMG ID: that of the last
\* requisition row with this RMG ID and a creation date, both non-empty
LookupCreated(requisitions, id) ==
    LET rows == {i \in 1..Len(requisitions) :
                    /\ ~Absent(id)
                    /\ Get(requisitions[i], "RMG ID") = id
                    /\ ~Absent(Get(requisitions[i], "Request Created Date"))}
    IN  IF rows = {} THEN Undefined
        ELSE Get(requisitions[CHOOSE i \in rows : \A j \in rows : j <= i],
                 "Request Created Date")

\* a candidate row that is Joined, has an RMG ID and a Joining Date, and whose
\* RMG ID resolves in the lookup
Resolves(row, requisitions) ==
    /\ Get(row, "Hiring Status") = Joined
    /\ ~Absent(Get(row, "RMG ID"))
    /\ ~Absent(Get(row, "Joining Date"))
    /\ LookupCreated(requisitions, Get(row, "RMG ID")) # Undefined

\* ... and for which elapsed days is not undefined
ResolvesWithDays(row, requisitions, env) ==
    /\ Resolves(row, requisitions)
    /\ ElapsedDays(env, LookupCreated(requisitions, Get(row, "RMG ID")),
                   Get(row, "Joining Date")).kind # "undefined"

\* <<RMG ID, Joining Date>> of each row, and of each time-to-fill entry
RowKeys(rows) ==
    [i \in 1..Len(rows) |-> <<Get(rows[i], "RMG ID"), Get(rows[i], "Joining Date")>>]

EntryKeys(details) ==
    [i \in 1..Len(details) |-> <<details[i].rmgId, details[i].joiningDate>>]

ClientSide == ClientEnv(browser, clientTz)

ServerSide == ServerEnv(serverTz)

\* C5 as stated: the entries are, in row order, exactly the candidate rows
\* that are Joined, have an RMG ID and a Joining Date, and resolve in the lookup.
C5_Original ==
    Ready =>
        LET keepC(row) == Resolves(row, filteredDataAndMetrics.mcubeData)
            keepS(row) == Resolves(row, rawMbrData.mcubeData)
        IN  /\ EntryKeys(filteredDataAndMetrics.metrics.timeToFillDetails)
                 = RowKeys(SelectSeq(filteredDataAndMetrics.taTrackerData, keepC))
            /\ EntryKeys(rawMbrData.metrics.timeToFillDetails)
                 = RowKeys(SelectSeq(rawMbrData.taTrackerData, keepS))

\* C5 amended: the entries are, in row order, exactly the candidate rows that
\* are Joined, have an RMG ID and a Joining Date, resolve in the lookup, and
\* for which the elapsed days of the two dates is not undefined; in the
\* dashboard over the filtered sets, in the data route over the parsed sets.
C5_TimeToFillEntries ==
    Ready =>
        LET keepC(row) == ResolvesWithDays(row, filteredDataAndMetrics.mcubeData, ClientSide)
            keepS(row) == ResolvesWithDays(row, rawMbrData.mcubeData, ServerSide)
        IN  /\ EntryKeys(filteredDataAndMetrics.metrics.timeToFillDetails)
                 = RowKeys(SelectSeq(filteredDataAndMetrics.taTrackerData, keepC))
            /\ EntryKeys(rawMbrData.metrics.timeToFillDetails)
                 = RowKeys(SelectSeq(rawMbrData.taTrackerData, keepS))

\* two Joined candidates of R1 each have an entry, and the Joined candidate of
\* R2, which has no requisition, has none
C5_Witness ==
    /\ Ready
    /\ filteredDataAndMetrics.mcubeData = <<McubeRow(R1, T_01_Jun_2024)>>
    /\ Len(filteredDataAndMetrics.taTrackerData) = 2
    /\ \A i \in 1..2 : Get(filteredDataAndMetrics.taTrackerData[i], "Hiring Status") = Joined
    /\ \/ EntryKeys(filteredDataAndMetrics.metrics.timeToFillDetails)
             = <<<<R1, T_15_Jun_2024>>, <<R1, T_15_Jun_2024>>>>
       \/ /\ EntryKeys(filteredDataAndMetrics.metrics.timeToFillDetails)
                = <<<<R1, T_15_Jun_2024>>>>
          /\ Get(filteredDataAndMetrics.taTrackerData[2], "RMG ID") = R2

-----------------------------------------------------------------------------
(* Properties of the date functions (SpecDates) *)

BothMeasured == measured = {"client", "server"}

\* the shapes of date text the specification names
ShapeDMonY(s) ==
    MatchParts(s, {1, 2}, DigitChars, {"-", "/"}, {3}, AlphaChars,
               {"-", "/"}, {4}, DigitChars)

ShapeYMD(s, separators) ==
    MatchParts(s, {4}, DigitChars, separators, {1, 2}, DigitChars,
               separators, {1, 2}, DigitChars)

ShapeMDY(s) ==
    MatchParts(s, {1, 2}, DigitChars, {"-", "/"}, {1, 2}, DigitChars,
               {"-", "/"}, {4}, DigitChars)

MonthNumber(name) == CHOOSE i \in 1..12 : MonthNames[i] = name

IsFirstFormat(s) ==
    ShapeDMonY(s) # <<>> /\ \E i \in 1..12 : MonthNames[i] = ShapeDMonY(s)[2]

\* a text that writes a day of the calendar as D-Mon-YYYY, D/Mon/YYYY or
\* YYYY-MM-DD, and the number of that day
WritesCalendarDay(s) ==
    \/ /\ IsFirstFormat(s)
       /\ parseInt(ShapeDMonY(s)[1]) \in
             1..DaysInMonth(parseInt(ShapeDMonY(s)[3]), MonthNumber(ShapeDMonY(s)[2]))
    \/ /\ ShapeYMD(s, {"-"}) # <<>>
       /\ parseInt(ShapeYMD(s, {"-"})[2]) \in 1..12
       /\ parseInt(ShapeYMD(s, {"-"})[3]) \in
             1..DaysInMonth(parseInt(ShapeYMD(s, {"-"})[1]), parseInt(ShapeYMD(s, {"-"})[2]))

CalendarDay(s) ==
    IF IsFirstFormat(s)
    THEN DaysFromCivil(parseInt(ShapeDMonY(s)[3]), MonthNumber(ShapeDMonY(s)[2]),
                       parseInt(ShapeDMonY(s)[1]))
    ELSE DaysFromCivil(parseInt(ShapeYMD(s, {"-"})[1]), parseInt(ShapeYMD(s, {"-"})[2]),
                       parseInt(ShapeYMD(s, {"-"})[3]))

AbsDiff(a, b) == IF a >= b THEN a - b ELSE b - a

\* C6: elapsed days of two normalizable date texts is the absolute difference
\* of the two calendar days (0 for the same day, 14 for 01-Jan-2024 and
\* 15-Jan-2024), in the dashboard and in the data route.
C6_ElapsedDaysIsDayDifference ==
    (BothMeasured /\ WritesCalendarDay(dateA) /\ WritesCalendarDay(dateB)) =>
        /\ clientDays = NumberOf(AbsDiff(CalendarDay(dateA), CalendarDay(dateB)))
        /\ serverDays = NumberOf(AbsDiff(CalendarDay(dateA), CalendarDay(dateB)))

NonNegativeInteger(d) == d.kind = "number" /\ d.n \in Nat

\* C7: every time-to-fill entry, of the dashboard and of the data route,
\* carries a daysToFill that is a non-negative integer (not NaN, not undefined).
C7_DaysToFillIsNonNegativeInteger ==
    Ready =>
        /\ \A i \in 1..Len(filteredDataAndMetrics.metrics.timeToFillDetails) :
              NonNegativeInteger(filteredDataAndMetrics.metrics.timeToFillDetails[i].daysToFill)
        /\ \A i \in 1..Len(rawMbrData.metrics.timeToFillDetails) :
              NonNegativeInteger(rawMbrData.metrics.timeToFillDetails[i].daysToFill)

NullOrValid(d) == d = NullDate \/ IsValidDate(d)

\* C8: both date normalizers return, for every input, null or a valid date.
C8_NormalizerGivesNullOrValidDate ==
    BothMeasured =>
        \A i \in 1..2 : NullOrValid(clientDates[i]) /\ NullOrValid(serverDates[i])

\* the host parser's result as the normalizers' last step returns it
HostOrNull(s, host, tz) ==
    IF HostDate(s, host, tz).nan THEN NullDate ELSE HostDate(s, host, tz)

\* the date of the first format, D-Mon-YYYY or D/Mon/YYYY
FirstFormatDate(s, tz) ==
    NewLocalDate(parseInt(ShapeDMonY(s)[3]), MonthNumber(ShapeDMonY(s)[2]) - 1,
                 parseInt(ShapeDMonY(s)[1]), tz)

\* the text with every '/' replaced by '-'
Dashed(s) == [i \in 1..Len(s) |-> IF s[i] = "/" THEN "-" ELSE s[i]]

\* two normalizer results denote the same date: the same instant, or no date
SameDate(r1, r2) ==
    IF IsValidDate(r1) /\ IsValidDate(r2) THEN r1.time = r2.time
    ELSE ~IsValidDate(r1) /\ ~IsValidDate(r2)

\* C9 as stated, for one normalizer result r of the text s: the first format,
\* else YYYY-MM-DD or YYYY/MM/DD recognised alike (rDashed is the result for
\* the text written with '-'), else the host parser, with no other pattern
\* in between.
StatedOrder(s, r, rDashed, host, tz) ==
    IF IsFirstFormat(s) THEN SameDate(r, FirstFormatDate(s, tz))
    ELSE IF ShapeYMD(s, {"-", "/"}) # <<>> THEN SameDate(r, rDashed)
    ELSE SameDate(r, HostOrNull(s, host, tz))

C9_Original ==
    BothMeasured =>
        /\ StatedOrder(dateA, clientDates[1],
                       parseDateForFiltering(Dashed(dateA), browser, clientTz),
                       browser, clientTz)
        /\ StatedOrder(dateA, serverDates[1], parseDate(Dashed(dateA), serverTz),
                       "v8", serverTz)

\* C9 amended.  Dashboard: the first format; else YYYY-M-D written with '-'
\* only, as the local date; else the host parser (which also gets
\* YYYY/MM/DD).  Data route: the first format; else M-D-YYYY or M/D/YYYY, then
\* YYYY-M-D or YYYY/M/D, each handed to the host parser as the text Y-M-D and
\* returned unchecked; else the host parser.
C9_PatternOrder ==
    BothMeasured =>
        /\ clientDates[1] =
              IF IsFirstFormat(dateA) THEN FirstFormatDate(dateA, clientTz)
              ELSE IF ShapeYMD(dateA, {"-"}) # <<>>
              THEN NewLocalDate(parseInt(ShapeYMD(dateA, {"-"})[1]),
                                parseInt(ShapeYMD(dateA, {"-"})[2]) - 1,
                                parseInt(ShapeYMD(dateA, {"-"})[3]), clientTz)
              ELSE HostOrNull(dateA, browser, clientTz)
        /\ serverDates[1] =
              IF IsFirstFormat(dateA) THEN FirstFormatDate(dateA, serverTz)
              ELSE IF ShapeMDY(dateA) # <<>>
              THEN HostDate(ShapeMDY(dateA)[3] \o <<"-">> \o ShapeMDY(dateA)[1]
                            \o <<"-">> \o ShapeMDY(dateA)[2], "v8", serverTz)
              ELSE IF ShapeYMD(dateA, {"-", "/"}) # <<>>
              THEN HostDate(ShapeYMD(dateA, {"-", "/"})[1] \o <<"-">>
                            \o ShapeYMD(dateA, {"-", "/"})[2] \o <<"-">>
                            \o ShapeYMD(dateA, {"-", "/"})[3], "v8", serverTz)
              ELSE HostOrNull(dateA, "v8", serverTz)

\* '2024/05/01' is left to the host parser by the dashboard (null in a strict
\* browser) and recognised by the data route
C9_Witness ==
    /\ BothMeasured
    /\ dateA = T_2024_05_01_slash
    /\ browser = "strict"
    /\ clientDates[1] = NullDate
    /\ IsValidDate(serverDates[1])

\* C10: '2024-05-01' and '01-May-2024' normalize to equal date values, and
\* their elapsed days is 0, in the dashboard and in the data route.
C10_TwoSpellingsCompareEqual ==
    (BothMeasured /\ dateA = T_2024_05_01 /\ dateB = T_01_May_2024) =>
        /\ clientDates[1] = clientDates[2]
        /\ serverDates[1] = serverDates[2]
        /\ clientDays = NumberOf(0)
        /\ serverDays = NumberOf(0)

-----------------------------------------------------------------------------
(* Row parser properties *)

Parsed == parsed # Null

\* the records parseSheetData returned
Records == parsed.value

HasHeaderRow == sheetRows.kind = "grid" /\ Len(sheetRows.values) > 0

\* the headers of row 0 are pairwise different after trimming
DistinctHeaders ==
    \A i, j \in 1..Len(sheetRows.values[1]) :
        Trim(sheetRows.values[1][i]) = Trim(sheetRows.values[1][j]) => i = j

\* C11: every record emitted for a grid whose row 0 has k headers has a key
\* set of exactly k entries, whatever the cell count of its data row, also
\* when two headers are equal after trimming.
C11_KeySetHasOneKeyPerHeader ==
    (Parsed /\ HasHeaderRow) =>
        \A r \in 1..Len(Records) :
            Cardinality(DOMAIN Records[r]) = Len(sheetRows.values[1])

\* the trimmed text of a cell, as the value the record holds for it
Converted(text) ==
    IF text # EmptyText /\ \A i \in 1..Len(text) : text[i] \in DigitChars
    THEN NumberOf(parseInt(text))
    ELSE StringOf(text)

\* C12: one record per data row in row order; under each header (the last
\* of equal ones) the record holds the cell of its data row at that
\* position, the empty string when the row is too short; no grid or a grid
\* without rows gives the empty sequence.
C12_OneRecordPerDataRow ==
    Parsed =>
        IF ~HasHeaderRow THEN Records = <<>>
        ELSE /\ Len(Records) = Len(sheetRows.values) - 1
             /\ \A r \in 1..Len(Records) :
                   \A i \in 1..Len(sheetRows.values[1]) :
                      (\A j \in (i + 1)..Len(sheetRows.values[1]) :
                           Trim(sheetRows.values[1][j]) # Trim(sheetRows.values[1][i]))
                      => Records[r][Trim(sheetRows.values[1][i])] =
                            IF i <= Len(sheetRows.values[r + 1])
                            THEN Converted(Trim(sheetRows.values[r + 1][i]))
                            ELSE StringOf(EmptyText)

\* a short row after a full one: the second record has '' under 'Age'
C12_Witness ==
    /\ Parsed
    /\ sheetRows = GridOf(<< <<H_Name, H_Age>>,
                             << <<"a">>, <<"4", "2">> >>,
                             << <<" ", "7", " ">> >> >>)
    /\ Records = << [h \in {H_Name, H_Age} |->
                        IF h = H_Name THEN StringOf(<<"a">>) ELSE NumberOf(42)],
                   [h \in {H_Name, H_Age} |->
                        IF h = H_Name THEN NumberOf(7) ELSE StringOf(EmptyText)] >>

-----------------------------------------------------------------------------
(* Breakdown and scalar metric properties *)

\* the two computed models: the data route's over the parsed record sets and
\* the dashboard's over the filtered record sets
Computed == {rawMbrData, filteredDataAndMetrics}

\* the value of a categorical field that counts: present and non-empty
HasValue(row, key) == key \in DOMAIN row /\ row[key] # EmptyText

RECURSIVE SumOfCounts(_)
SumOfCounts(entries) ==
    IF entries = <<>> THEN 0
    ELSE SumOfCounts(SubSeq(entries, 1, Len(entries) - 1)) + entries[Len(entries)].count

WithStatus(offers) == {i \in 1..Len(offers) : HasValue(offers[i], "Offer Status")}

\* C13: the counts of offerStatusBreakdown sum to the number of offer records
\* with a non-empty Offer Status, no label has two entries, and every count
\* is at least 1.
C13_OfferBreakdownConservation ==
    Ready =>
        \A d \in Computed :
            LET b == d.metrics.offerStatusBreakdown
            IN  /\ SumOfCounts(b) = Cardinality(WithStatus(d.offersTrackerData))
                /\ \A i, j \in 1..Len(b) : b[i].label = b[j].label => i = j
                /\ \A i \in 1..Len(b) : b[i].count >= 1

\* offers Accepted, Accepted, Declined under the default window
C13_Witness ==
    /\ Ready
    /\ Len(filteredDataAndMetrics.offersTrackerData) = 3
    /\ filteredDataAndMetrics.metrics.offerStatusBreakdown =
          << [label |-> Accepted, count |-> 2], [label |-> Declined, count |-> 1] >>

AcceptedOffers(offers) ==
    {i \in 1..Len(offers) : HasValue(offers[i], "Offer Status")
                                /\ offers[i]["Offer Status"] = Accepted}

\* the metric is the number pct / 1
IsPercentage(metric, num, den) ==
    metric.kind = "number" /\ metric.num * den = num * metric.den

InZeroToHundred(metric) ==
    metric.kind = "number" /\ metric.num >= 0 /\ metric.num <= 100 * metric.den

\* C14 as stated: the rate, when defined, is in [0, 100] and is the share of
\* Accepted records among the offer records; with no offer record it is
\* undefined.
C14_Original ==
    Ready =>
        \A d \in Computed :
            LET offers == d.offersTrackerData
                rate == d.metrics.offerAcceptanceRate
            IN  /\ Len(offers) = 0 => rate.kind = "undefined"
                /\ rate.kind # "undefined" =>
                      /\ InZeroToHundred(rate)
                      /\ IsPercentage(rate, 100 * Cardinality(AcceptedOffers(offers)),
                                      Len(offers))

\* C14: the rate is undefined exactly when no offer record has a non-empty
\* Offer Status; otherwise it is in [0, 100] and is the share of Accepted
\* records among the offer records with a non-empty Offer Status.
C14_AcceptanceRate ==
    Ready =>
        \A d \in Computed :
            LET offers == d.offersTrackerData
                rate == d.metrics.offerAcceptanceRate
            IN  IF WithStatus(offers) = {} THEN rate.kind = "undefined"
                ELSE /\ InZeroToHundred(rate)
                     /\ IsPercentage(rate, 100 * Cardinality(AcceptedOffers(offers)),
                                     Cardinality(WithStatus(offers)))

\* Accepted, Accepted, Declined: 200 / 3
C14_Witness ==
    /\ Ready
    /\ rawMbrData.offersTrackerData =
          << OfferRow(T_15_Jun_2024, Accepted), OfferRow(T_15_Jun_2024, Accepted),
             OfferRow(T_01_Jul_2024, Declined) >>
    /\ rawMbrData.metrics.offerAcceptanceRate = Quotient(200, 3)
    /\ filteredDataAndMetrics.metrics.offerAcceptanceRate = Quotient(200, 3)

\* the rows that count for a breakdown: with joinedOnly the Joined ones
Qualifies(row, key, joinedOnly) ==
    /\ HasValue(row, key)
    /\ joinedOnly => (HasValue(row, "Hiring Status") /\ row["Hiring Status"] = Joined)

JoinedRows(ta) ==
    {i \in 1..Len(ta) : HasValue(ta[i], "Hiring Status") /\ ta[i]["Hiring Status"] = Joined}

NoneQualifies(recordSet, key, joinedOnly) ==
    \A i \in 1..Len(recordSet) : ~Qualifies(recordSet[i], key, joinedOnly)

\* C15: with no Joined candidate the average time to fill is undefined, with
\* no offer the acceptance rate is undefined, and a breakdown without a
\* qualifying record is the empty sequence.
C15_ZeroDenominators ==
    Ready =>
        \A d \in Computed :
            /\ JoinedRows(d.taTrackerData) = {} =>
                   d.metrics.overallTimeToFillAverageDays = UndefinedMetric
            /\ Len(d.offersTrackerData) = 0 =>
                   d.metrics.offerAcceptanceRate = UndefinedMetric
            /\ NoneQualifies(d.offersTrackerData, "Offer Status", FALSE) =>
                   d.metrics.offerStatusBreakdown = <<>>
            /\ NoneQualifies(d.taTrackerData, "Source", TRUE) =>
                   d.metrics.sourceOfHireBreakdown = <<>>
            /\ NoneQualifies(d.taTrackerData, "Department", TRUE) =>
                   d.metrics.joinersByDepartment = <<>>
            /\ NoneQualifies(d.vendorConsolidatedData, "Vendor Name", FALSE) =>
                   d.metrics.vendorSubmissionsByVendor = <<>>

EmptyMetrics ==
    [ timeToFillDetails |-> <<>>,
      overallTimeToFillAverageDays |-> UndefinedMetric,
      offerAcceptanceRate |-> UndefinedMetric,
      offerStatusBreakdown |-> <<>>,
      sourceOfHireBreakdown |-> <<>>,
      joinersByDepartment |-> <<>>,
      vendorSubmissionsByVendor |-> <<>> ]

\* five empty record sets
C15_Witness ==
    /\ Ready
    /\ \A sheet \in FiveSheets : rawMbrData[sheet] = <<>>
    /\ rawMbrData.metrics = EmptyMetrics
    /\ filteredDataAndMetrics.metrics = EmptyMetrics

\* the position of the first qualifying row with this label
FirstOccurrence(recordSet, key, joinedOnly, label) ==
    CHOOSE i \in 1..Len(recordSet) :
        /\ Qualifies(recordSet[i], key, joinedOnly) /\ recordSet[i][key] = label
        /\ \A j \in 1..(i - 1) :
              ~(Qualifies(recordSet[j], key, joinedOnly) /\ recordSet[j][key] = label)

\* b is the grouping of the qualifying rows by their label, one entry per
\* label in the order in which the labels first occur
GroupsInFirstOccurrenceOrder(b, recordSet, key, joinedOnly) ==
    /\ \A r \in 1..Len(recordSet) :
          Qualifies(recordSet[r], key, joinedOnly) =>
              \E i \in 1..Len(b) : b[i].label = recordSet[r][key]
    /\ \A i \in 1..Len(b) :
          /\ b[i].label # EmptyText /\ b[i].label # Undefined
          /\ b[i].count >= 1
          /\ b[i].count =
                Cardinality({r \in 1..Len(recordSet) :
                    Qualifies(recordSet[r], key, joinedOnly) /\ recordSet[r][key] = b[i].label})
    /\ \A i, j \in 1..Len(b) :
          i < j => FirstOccurrence(recordSet, key, joinedOnly, b[i].label)
                     < FirstOccurrence(recordSet, key, joinedOnly, b[j].label)

\* C16: each breakdown groups the records with a non-empty categorical value
\* in order of first occurrence of the label; records without the value are
\* in no entry; the source and department breakdowns count Joined candidates
\* only.
C16_BreakdownGrouping ==
    Ready =>
        \A d \in Computed :
            /\ GroupsInFirstOccurrenceOrder(d.metrics.offerStatusBreakdown,
                                            d.offersTrackerData, "Offer Status", FALSE)
            /\ GroupsInFirstOccurrenceOrder(d.metrics.sourceOfHireBreakdown,
                                            d.taTrackerData, "Source", TRUE)
            /\ GroupsInFirstOccurrenceOrder(d.metrics.joinersByDepartment,
                                            d.taTrackerData, "Department", TRUE)
            /\ GroupsInFirstOccurrenceOrder(d.metrics.vendorSubmissionsByVendor,
                                            d.vendorConsolidatedData, "Vendor Name", FALSE)

\* offers Declined, (no status), Accepted: Declined comes first although it
\* sorts after Accepted, and the offer without a status is in no entry
C16_Witness ==
    /\ Ready
    /\ rawMbrData.offersTrackerData =
          << OfferRow(T_01_Jul_2024, Declined), OfferRow(T_15_Jun_2024, EmptyText),
             OfferRow(T_15_Jun_2024, Accepted) >>
    /\ rawMbrData.metrics.offerStatusBreakdown =
          << [label |-> Declined, count |-> 1], [label |-> Accepted, count |-> 1] >>

-----------------------------------------------------------------------------
(* Monthly joiners trend properties *)

\* the key YYYY-MM of year y and month m (1..12): four and two digits
YearMonthKey(y, m) ==
    << Digits[((y \div 1000) % 10) + 1], Digits[((y \div 100) % 10) + 1],
       Digits[((y \div 10) % 10) + 1], Digits[(y % 10) + 1], "-",
       Digits[(m \div 10) + 1], Digits[(m % 10) + 1] >>

\* the Joined candidates of the filtered set whose Joining Date is non-empty
\* and normalizes
JoinersWithDate ==
    {i \in JoinedRows(filteredDataAndMetrics.taTrackerData) :
        /\ HasValue(filteredDataAndMetrics.taTrackerData[i], "Joining Date")
        /\ IsValidDate(Norm(filteredDataAndMetrics.taTrackerData[i]["Joining Date"]))}

\* the month key of such a candidate: year and month of the normalized date
JoinerKey(i) ==
    YearMonthKey(
        getFullYear(Norm(filteredDataAndMetrics.taTrackerData[i]["Joining Date"]), clientTz),
        getMonth(Norm(filteredDataAndMetrics.taTrackerData[i]["Joining Date"]), clientTz) + 1)

\* a < b for two keys of digits and '-', character by character
RECURSIVE KeyBefore(_, _)
KeyBefore(a, b) ==
    /\ b # <<>>
    /\ \/ a = <<>>
       \/ (a[1] # "-" /\ b[1] # "-" /\ DigitVal(a[1]) < DigitVal(b[1]))
       \/ (a[1] = "-" /\ b[1] # "-")
       \/ (a[1] = b[1] /\ KeyBefore(Tail(a), Tail(b)))

\* C17: the trend has one {month, count} pair per YYYY-MM key of a Joined
\* candidate with a normalizable Joining Date, months zero-padded, in
\* ascending order of the keys; the count of a key is the number of those
\* candidates with it, so the counts sum to their number.
C17_MonthlyJoinersTrend ==
    Ready =>
        /\ {monthlyJoinersData[k].month : k \in 1..Len(monthlyJoinersData)}
              = {JoinerKey(i) : i \in JoinersWithDate}
        /\ \A k \in 1..Len(monthlyJoinersData) :
              monthlyJoinersData[k].count =
                  Cardinality({i \in JoinersWithDate :
                                  JoinerKey(i) = monthlyJoinersData[k].month})
        /\ \A k, l \in 1..Len(monthlyJoinersData) :
              k < l => KeyBefore(monthlyJoinersData[k].month, monthlyJoinersData[l].month)
        /\ SumOfCounts(monthlyJoinersData) = Cardinality(JoinersWithDate)

\* no window; candidates joined on 01-Jul-2024, on 15-Jun-2024 and on
\* '15-06-2024', which does not normalize: June comes before July and the
\* third candidate is in no month
C17_Witness ==
    /\ Ready
    /\ StartAbsent /\ EndAbsent
    /\ filteredDataAndMetrics.taTrackerData =
          << TaRow(R2, Joined, T_01_Jul_2024, EmptyText, EmptyText, Ops, Referral),
             TaRow(R1, Joined, T_15_Jun_2024, EmptyText, EmptyText, Eng, Portal),
             TaRow(R1, Joined, T_15_06_2024, EmptyText, EmptyText, Ops, Portal) >>
    /\ monthlyJoinersData =
          << [month |-> <<"2", "0", "2", "4", "-", "0", "6">>, count |-> 1],
             [month |-> <<"2", "0", "2", "4", "-", "0", "7">>, count |-> 1] >>


-----------------------------------------------------------------------------
(* The response of the data route *)

Answered == response # Null

HasError == "error" \in DOMAIN response.body

\* the body is the metrics model with the five record sets
HasMetricsModel ==
    {"metrics", "mcubeData", "taTrackerData", "offersTrackerData",
     "vendorConsolidatedData", "interviewListData"} \subseteq DOMAIN response.body

\* the body carries a result of parsing or of the metric computation
CarriesResult ==
    DOMAIN response.body \cap
        {"metrics", "mcubeData", "taTrackerData", "offersTrackerData",
         "vendorConsolidatedData", "interviewListData"} # {}

\* an environment variable the route needs is unset or empty
ConfigurationMissing ==
    \E name \in DOMAIN processEnv : processEnv[name] \in {Undefined, EmptyText}

FetchFailed == \E tab \in DOMAIN sheetsApi : sheetsApi[tab] = Rejected

\* C18: every response of the data route carries either a top-level error
\* field or the metrics model with the five record sets, never both; when a
\* credential or the spreadsheet ID is missing, or one of the five sheet
\* requests fails, the response is an error with status 500 that carries no
\* result of parsing or of the metric computation
C18_ErrorOrMetrics ==
    Answered =>
        /\ HasError # HasMetricsModel
        /\ (ConfigurationMissing \/ FetchFailed) =>
               /\ HasError
               /\ response.status = 500
               /\ ~CarriesResult

\* the configuration is complete, four tabs answer with rows and the request
\* for the fifth is rejected: the answer is the error
C18_Witness ==
    /\ Answered
    /\ ~ConfigurationMissing
    /\ sheetsApi["Vendor Consolidated"] = Rejected
    /\ \A tab \in {"TA Tracker", "Offers tracker", "Mcube Data"} :
           sheetsApi[tab].kind = "grid"
    /\ HasError
    /\ response.status = 500

-----------------------------------------------------------------------------
(* The data sent for a summary *)

Sent == dataToSend # Null

\* the last k rows of a record set, in their order
LastRows(recordSet, k) == [i \in 1..k |-> recordSet[Len(recordSet) - k + i]]

Smaller(a, b) == IF a < b THEN a ELSE b

\* what is sent of a record set is its last min(100, length) rows
IsProjection(sent, recordSet) ==
    sent = LastRows(recordSet, Smaller(100, Len(recordSet)))

\* C19: for each of the five filtered record sets and for timeToFillDetails,
\* what is sent to the summary service is the last min(100, length) rows of
\* the set in their order; the average time-to-fill and the acceptance rate
\* sent are those of the full filtered data, and totalJoinedCandidates is the
\* number of all time-to-fill entries of the full filtered data
C19_SummarizationProjection ==
    Sent =>
        /\ \A sheet \in FiveSheets :
               IsProjection(dataToSend[sheet], filteredDataAndMetrics[sheet])
        /\ IsProjection(dataToSend.metrics.timeToFillDetails,
                        filteredDataAndMetrics.metrics.timeToFillDetails)
        /\ dataToSend.metrics.overallTimeToFillAverageDays
               = filteredDataAndMetrics.metrics.overallTimeToFillAverageDays
        /\ dataToSend.metrics.offerAcceptanceRate
               = filteredDataAndMetrics.metrics.offerAcceptanceRate
        /\ dataToSend.metrics.totalJoinedCandidates
               = Len(filteredDataAndMetrics.metrics.timeToFillDetails)

\* more than a hundred candidates and time-to-fill entries remain after the
\* filter: a hundred of each are sent, the first is not among them, and the
\* total counts them all
C19_Witness ==
    /\ Sent
    /\ startDate # EmptyText
    /\ Len(filteredDataAndMetrics.taTrackerData) > 100
    /\ Len(rawMbrData.taTrackerData) > Len(filteredDataAndMetrics.taTrackerData)
    /\ Len(dataToSend.taTrackerData) = 100
    /\ dataToSend.taTrackerData[1] # filteredDataAndMetrics.taTrackerData[1]
    /\ Len(dataToSend.metrics.timeToFillDetails) = 100
    /\ dataToSend.metrics.totalJoinedCandidates > 100

-----------------------------------------------------------------------------
(* Elapsed days in both orders *)

\* C20: elapsed days is symmetric on both sides: for every pair of date texts,
\* normalizable or not, the result for (a, b) is the result for (b, a), be it
\* a number of days, undefined, or not a number
C20_ElapsedDaysSymmetric ==
    /\ "client" \in measured =>
           clientDays = getDaysDifference(dateB, dateA, browser, clientTz)
    /\ "server" \in measured =>
           serverDays = getDaysDifferenceServer(dateB, dateA, serverTz)

\* both sides have measured a later date against an earlier one and found a
\* positive number of days
C20_Witness ==
    /\ BothMeasured
    /\ dateA = T_15_Jan_2024
    /\ dateB = T_01_Jan_2024
    /\ clientDays.kind = "number" /\ clientDays.n > 0
    /\ serverDays.kind = "number" /\ serverDays.n > 0

-----------------------------------------------------------------------------
(* Status literals *)

\* the environment a computed metrics model was computed in: the data
\* route's for rawMbrData, the browser's for the filtered model
SideOf(d) == IF d = rawMbrData THEN ServerSide ELSE ClientSide

StatusOf(row) == Get(row, "Hiring Status")

ExactlyJoined(row) == StatusOf(row) = Joined

\* a status that is none of the three literals: the filter's open branch
OtherStatus(row) == StatusOf(row) \notin {Joined, Declined, Withdrawn}

\* the candidates with the rows left out whose status is not exactly 'Joined'
OnlyJoined(d) == [d EXCEPT !.taTrackerData = SelectSeq(d.taTrackerData, ExactlyJoined)]

\* a candidate whose status is not exactly 'Joined' adds nothing to the
\* time-to-fill entries, to the source and department breakdowns, or to the
\* monthly trend
NotJoinedAddsNothing ==
    /\ \A d \in Computed :
          /\ d.metrics.timeToFillDetails
                = WithMetrics(OnlyJoined(d), SideOf(d)).metrics.timeToFillDetails
          /\ SumOfCounts(d.metrics.sourceOfHireBreakdown)
                = Cardinality({i \in JoinedRows(d.taTrackerData) :
                                  HasValue(d.taTrackerData[i], "Source")})
          /\ SumOfCounts(d.metrics.joinersByDepartment)
                = Cardinality({i \in JoinedRows(d.taTrackerData) :
                                  HasValue(d.taTrackerData[i], "Department")})
    /\ SumOfCounts(monthlyJoinersData) = Cardinality(JoinersWithDate)

\* the candidates of the open branch that are retained are those whose
\* requisition's creation date passes the window
OpenBranchByCreationDate ==
    LET passes(row) ==
            /\ OtherStatus(row)
            /\ PassesWindow(Norm(Get(FindByRmgId(rawMbrData.mcubeData, Get(row, "RMG ID")),
                                     "Request Created Date")))
    IN  SelectSeq(filteredDataAndMetrics.taTrackerData, OtherStatus)
            = SelectSeq(rawMbrData.taTrackerData, passes)

\* the rate is 100 * |accepted| / den, or undefined when den is 0
RateIs(d, den) ==
    IF den = 0 THEN d.metrics.offerAcceptanceRate.kind = "undefined"
    ELSE IsPercentage(d.metrics.offerAcceptanceRate,
                      100 * Cardinality(AcceptedOffers(d.offersTrackerData)), den)

\* C21 as stated: every offer whose status is not exactly 'Accepted' counts in
\* the breakdown and in the denominator of the rate, so both count every
\* offer record
C21_Original ==
    Ready =>
        /\ NotJoinedAddsNothing
        /\ OpenBranchByCreationDate
        /\ \A d \in Computed :
              /\ SumOfCounts(d.metrics.offerStatusBreakdown) = Len(d.offersTrackerData)
              /\ RateIs(d, Len(d.offersTrackerData))

\* C21: status literals are matched by exact, case-sensitive equality: a
\* candidate whose Hiring Status is not exactly 'Joined' yields no
\* time-to-fill entry and is counted in no source, department or monthly
\* breakdown; one whose status is none of 'Joined', 'Declined', 'Withdrawn'
\* is filtered by its requisition's creation date; an offer whose status is
\* not exactly 'Accepted' never counts as accepted, and when its status is
\* not empty it counts in the breakdown under its own label and in the
\* denominator of the rate, while an offer without a status counts in neither
C21_StatusLiteralsExact ==
    Ready =>
        /\ NotJoinedAddsNothing
        /\ OpenBranchByCreationDate
        /\ \A d \in Computed :
              /\ SumOfCounts(d.metrics.offerStatusBreakdown)
                    = Cardinality(WithStatus(d.offersTrackerData))
              /\ \A i \in WithStatus(d.offersTrackerData) :
                    \E k \in 1..Len(d.metrics.offerStatusBreakdown) :
                        d.metrics.offerStatusBreakdown[k].label
                            = d.offersTrackerData[i]["Offer Status"]
              /\ RateIs(d, Cardinality(WithStatus(d.offersTrackerData)))

\* under a window, a candidate with status 'joined' whose requisition was
\* created inside it is retained and gives no time-to-fill entry
C21_Witness ==
    /\ Ready
    /\ ~StartAbsent
    /\ \E i \in 1..Len(filteredDataAndMetrics.taTrackerData) :
          /\ StatusOf(filteredDataAndMetrics.taTrackerData[i]) = JoinedLower
          /\ ~IsValidDate(Norm(startDate)) \/
                Norm(Get(filteredDataAndMetrics.taTrackerData[i], "Joining Date")).time
                    < Norm(startDate).time
    /\ filteredDataAndMetrics.mcubeData # <<>>
    /\ filteredDataAndMetrics.metrics.timeToFillDetails = <<>>
    /\ rawMbrData.metrics.sourceOfHireBreakdown = <<>>

\* an offer with status 'accepted' is in the breakdown and in the
\* denominator, and is not accepted: the rate is 0
C21_OfferWitness ==
    /\ Ready
    /\ \E i \in 1..Len(filteredDataAndMetrics.offersTrackerData) :
          Get(filteredDataAndMetrics.offersTrackerData[i], "Offer Status") = AcceptedLower
    /\ AcceptedOffers(filteredDataAndMetrics.offersTrackerData) = {}
    /\ IsPercentage(filteredDataAndMetrics.metrics.offerAcceptanceRate, 0, 1)

-----------------------------------------------------------------------------
(* The overall average time to fill *)

\* the daysToFill of every entry is a number
AllDaysAreNumbers(details) ==
    \A i \in 1..Len(details) : details[i].daysToFill.kind = "number"

RECURSIVE SumOfDays(_)
SumOfDays(details) ==
    IF details = <<>> THEN 0
    ELSE SumOfDays(SubSeq(details, 1, Len(details) - 1))
             + details[Len(details)].daysToFill.n

\* the average of a metrics model is undefined exactly when it has no entry,
\* and otherwise is the number sum / count, between the least and the most
\* daysToFill
AverageIsMean(metrics) ==
    LET details == metrics.timeToFillDetails
        avg == metrics.overallTimeToFillAverageDays
    IN  /\ (avg.kind = "undefined") <=> (details = <<>>)
        /\ details # <<>> =>
              /\ AllDaysAreNumbers(details)
              /\ avg.kind = "number"
              /\ avg.num * Len(details) = SumOfDays(details) * avg.den
              /\ \E i \in 1..Len(details) :
                    details[i].daysToFill.n * avg.den <= avg.num
              /\ \E i \in 1..Len(details) :
                    details[i].daysToFill.n * avg.den >= avg.num

\* C22: overallTimeToFillAverageDays is undefined exactly when
\* timeToFillDetails is empty, and otherwise is the sum of daysToFill over
\* the entries divided by their number, so between the least and the most
\* daysToFill; in the data route's metrics and in the dashboard's
C22_AverageIsMeanOfEntries ==
    Ready => \A d \in Computed : AverageIsMean(d.metrics)

\* the same for the metrics the dashboard computes
C22_InTheDashboard == Ready => AverageIsMean(filteredDataAndMetrics.metrics)

\* two entries with different daysToFill in the dashboard: the average is
\* strictly between them
C22_DashboardWitness ==
    /\ Ready
    /\ Len(filteredDataAndMetrics.metrics.timeToFillDetails) = 2
    /\ filteredDataAndMetrics.metrics.timeToFillDetails[1].daysToFill
          # filteredDataAndMetrics.metrics.timeToFillDetails[2].daysToFill
    /\ AverageIsMean(filteredDataAndMetrics.metrics)

-----------------------------------------------------------------------------
\* The life of a summary request

\* a request is under way: the handler awaits the fetch
UnderWay == aiLoading

\* the handler's first four state updates, seen at its await
Started ==
    /\ aiLoading' = TRUE
    /\ aiSummary' = Null
    /\ aiError' = Null
    /\ aiChartSuggestions' = <<>>

\* a request was sent and the handler has run to its end
Completed == Sent /\ ~aiLoading

ExactlyOneOfSummaryAndError == (aiSummary # Null) # (aiError # Null)

ChartsOnlyWithSummary == (aiChartSuggestions # <<>>) => (aiSummary # Null)

\* C23: starting a summary request sets aiLoading and clears aiSummary,
\* aiError and aiChartSuggestions; every request under way eventually ends
\* with aiLoading false, whatever the fetch settles to; and when a request
\* has completed, exactly one of aiSummary and aiError is non-null and there
\* are chart suggestions only together with a summary.
C23_SummaryLifecycle ==
    /\ [][(GenerateAiSummary /\ filteredDataAndMetrics # Null) => Started]_vars
    /\ (UnderWay ~> ~UnderWay)
    /\ [](Completed => (ExactlyOneOfSummaryAndError /\ ChartsOnlyWithSummary))

\* a completed request that brought a summary and chart suggestions
C23_Witness ==
    /\ Completed
    /\ aiSummary # Null
    /\ aiError = Null
    /\ aiChartSuggestions # <<>>

\* a completed request that ended in the catch block
C23_ErrorWitness ==
    /\ Completed
    /\ aiSummary = Null
    /\ aiError # Null
    /\ aiChartSuggestions = <<>>

-----------------------------------------------------------------------------
\* What a summary request leaves alone

\* a step of the handler: up to its await, or from there to its end
SummaryStep == GenerateAiSummary \/ SummaryArrives

\* the raw data, the date bounds, and the five filtered record sets with
\* the metrics model (the fields of filteredDataAndMetrics)
MetricInputsAndResults == <<rawMbrData, startDate, endDate, filteredDataAndMetrics>>

\* C24: no step of generateAiSummary, from its start to its completion in
\* success or failure, changes the raw data, the date bounds, the five
\* filtered record sets or any field of the metrics model.
C24_SummaryChangesNoMetrics == [][SummaryStep => UNCHANGED MetricInputsAndResults]_vars

\* a request over more rows than are sent has completed, and the filtered
\* data is still what the memo makes of the raw data and the bounds
C24_Witness ==
    /\ Completed
    /\ \/ Len(filteredDataAndMetrics.taTrackerData) > MAX_ROWS_FOR_AI_ANALYSIS
       \/ Len(filteredDataAndMetrics.offersTrackerData) > MAX_ROWS_FOR_AI_ANALYSIS
    /\ Len(dataToSend.taTrackerData) <= MAX_ROWS_FOR_AI_ANALYSIS
    /\ filteredDataAndMetrics = Memo(rawMbrData, startDate, endDate)

-----------------------------------------------------------------------------
\* The two joins of candidates to requisitions

\* the creation date the filter takes for a candidate's RMG ID: that of the
\* first requisition row of the raw data with this RMG ID
FilterCreated(id) == Get(FindByRmgId(rawMbrData.mcubeData, id), "Request Created Date")

\* the creation date the aggregator's map holds for an RMG ID, undefined
\* when the map has no such key
AggregatorCreated(id) ==
    IF MapHas(mcubeRmgMap(filteredDataAndMetrics.mcubeData), id)
    THEN MapGet(mcubeRmgMap(filteredDataAndMetrics.mcubeData), id)
    ELSE Undefined

\* the RMG IDs of the candidates in the filter's open branch
OpenIds ==
    {Get(rawMbrData.taTrackerData[i], "RMG ID") :
        i \in {j \in 1..Len(rawMbrData.taTrackerData) :
                  OtherStatus(rawMbrData.taTrackerData[j])}}

\* C25: with no date window, for every open candidate with an RMG ID the
\* creation date the filter looks up (first matching requisition row) is
\* the creation date the aggregator's map holds for that RMG ID (last row
\* written), also when several requisition rows share the RMG ID.
C25_JoinConsistency ==
    (Ready /\ StartAbsent /\ EndAbsent) =>
        \A id \in OpenIds : Truthy(id) => FilterCreated(id) = AggregatorCreated(id)

\* the same when no two requisition rows share an RMG ID
NoSharedRmgId ==
    \A i, j \in 1..Len(rawMbrData.mcubeData) :
        Get(rawMbrData.mcubeData[i], "RMG ID") = Get(rawMbrData.mcubeData[j], "RMG ID")
            => i = j

C25_ConsistentWithoutDuplicates ==
    (Ready /\ StartAbsent /\ EndAbsent /\ NoSharedRmgId) =>
        \A id \in OpenIds :
            (Truthy(id) /\ Truthy(FilterCreated(id))) =>
                FilterCreated(id) = AggregatorCreated(id)

\* an open candidate whose requisition is the only one with its RMG ID
C25_UniqueWitness ==
    /\ Ready /\ StartAbsent /\ EndAbsent /\ NoSharedRmgId
    /\ \E id \in OpenIds : Truthy(id) /\ Truthy(FilterCreated(id))

-----------------------------------------------------------------------------
\* Open candidates without an RMG ID

\* a retained candidate of the open branch whose RMG ID is empty or absent
OpenWithoutId(row) == OtherStatus(row) /\ Absent(Get(row, "RMG ID"))

\* C26: when at least one bound is given, no candidate of the open branch
\* whose RMG ID is empty or absent is retained by the filter.
C26_OpenWithoutIdNotRetained ==
    (Ready /\ ~(StartAbsent /\ EndAbsent)) =>
        \A i \in 1..Len(filteredDataAndMetrics.taTrackerData) :
            ~OpenWithoutId(filteredDataAndMetrics.taTrackerData[i])

\* the same holds when no requisition row lacks its RMG ID
EveryRequisitionHasId ==
    \A i \in 1..Len(rawMbrData.mcubeData) : ~Absent(Get(rawMbrData.mcubeData[i], "RMG ID"))

C26_NotRetainedWhenRequisitionsHaveIds ==
    (Ready /\ ~(StartAbsent /\ EndAbsent) /\ EveryRequisitionHasId) =>
        \A i \in 1..Len(filteredDataAndMetrics.taTrackerData) :
            ~OpenWithoutId(filteredDataAndMetrics.taTrackerData[i])

\* an open candidate without an RMG ID is filtered away under a window
C26_DroppedWitness ==
    /\ Ready /\ ~(StartAbsent /\ EndAbsent) /\ EveryRequisitionHasId
    /\ rawMbrData.mcubeData # <<>>
    /\ \E i \in 1..Len(rawMbrData.taTrackerData) : OpenWithoutId(rawMbrData.taTrackerData[i])

-----------------------------------------------------------------------------
\* Time to fill under a window

BothBounds == ~StartAbsent /\ ~EndAbsent

\* a date text normalizes to a date inside [startDate, endDate]
InsideWindow(text) ==
    /\ IsValidDate(Norm(text))
    /\ Norm(text).time >= Norm(startDate).time
    /\ Norm(text).time <= Norm(endDate).time

\* the window length in days, as the dashboard measures elapsed days
WindowDays == getDaysDifference(startDate, endDate, browser, clientTz)

\* a requisition row with this RMG ID whose creation date is inside the window
CreatedInsideWindow(id) ==
    \E i \in 1..Len(rawMbrData.mcubeData) :
        /\ Get(rawMbrData.mcubeData[i], "RMG ID") = id
        /\ InsideWindow(Get(rawMbrData.mcubeData[i], "Request Created Date"))

\* the retained Joined candidates none of whose requisitions was created
\* inside the window
JoinedOutsideRequisition ==
    {i \in 1..Len(filteredDataAndMetrics.taTrackerData) :
        /\ ExactlyJoined(filteredDataAndMetrics.taTrackerData[i])
        /\ ~CreatedInsideWindow(Get(filteredDataAndMetrics.taTrackerData[i], "RMG ID"))}

EntryOf(row, entry) ==
    /\ entry.rmgId = Get(row, "RMG ID")
    /\ entry.joiningDate = Get(row, "Joining Date")

\* C27: in the dashboard, when both bounds are given, every time-to-fill
\* entry has its creation date and its joining date inside [start, end] and
\* its daysToFill is at most the window length; and a retained Joined
\* candidate whose requisition was not created inside the window (created
\* before start, say) has no entry.
C27_TimeToFillInsideWindow ==
    (Ready /\ BothBounds) =>
        /\ \A i \in 1..Len(filteredDataAndMetrics.metrics.timeToFillDetails) :
              /\ InsideWindow(filteredDataAndMetrics.metrics.timeToFillDetails[i].createdDate)
              /\ InsideWindow(filteredDataAndMetrics.metrics.timeToFillDetails[i].joiningDate)
              /\ filteredDataAndMetrics.metrics.timeToFillDetails[i].daysToFill.kind = "number"
              /\ filteredDataAndMetrics.metrics.timeToFillDetails[i].daysToFill.n <= WindowDays.n
        /\ \A i \in JoinedOutsideRequisition :
              \A j \in 1..Len(filteredDataAndMetrics.metrics.timeToFillDetails) :
                 ~EntryOf(filteredDataAndMetrics.taTrackerData[i],
                          filteredDataAndMetrics.metrics.timeToFillDetails[j])

\* under a window a Joined candidate is retained whose requisition was
\* created before the start, and it has no entry
C27_Witness ==
    /\ Ready /\ BothBounds
    /\ filteredDataAndMetrics.metrics.timeToFillDetails = <<>>
    /\ \E i \in JoinedOutsideRequisition :
          \E k \in 1..Len(rawMbrData.mcubeData) :
             /\ Get(rawMbrData.mcubeData[k], "RMG ID") =
                   Get(filteredDataAndMetrics.taTrackerData[i], "RMG ID")
             /\ IsValidDate(Norm(Get(rawMbrData.mcubeData[k], "Request Created Date")))
             /\ Norm(Get(rawMbrData.mcubeData[k], "Request Created Date")).time
                   < Norm(startDate).time

\* under a window there is an entry that took more than a day to fill
C27_EntryWitness ==
    /\ Ready /\ BothBounds
    /\ \E i \in 1..Len(filteredDataAndMetrics.metrics.timeToFillDetails) :
          /\ filteredDataAndMetrics.metrics.timeToFillDetails[i].daysToFill.n > 1
          /\ filteredDataAndMetrics.metrics.timeToFillDetails[i].daysToFill.n < WindowDays.n

-----------------------------------------------------------------------------
\* The joined figures of the render

\* C28: for every input and window the figure 'Total Joined Candidates' is
\* at most the figure 'Filled Positions', and so is the sum of the counts of
\* joinersByDepartment, of sourceOfHireBreakdown and of the monthly trend.
C28_JoinedCountsWithinFilled ==
    Ready =>
        /\ totalJoinedCandidates(filteredDataAndMetrics)
              <= filledPositions(filteredDataAndMetrics)
        /\ SumOfCounts(filteredDataAndMetrics.metrics.joinersByDepartment)
              <= filledPositions(filteredDataAndMetrics)
        /\ SumOfCounts(filteredDataAndMetrics.metrics.sourceOfHireBreakdown)
              <= filledPositions(filteredDataAndMetrics)
        /\ SumOfCounts(monthlyJoinersData) <= filledPositions(filteredDataAndMetrics)

\* under a window two positions are filled and both are in the monthly trend,
\* while the entries, the departments and the sources each count one
C28_Witness ==
    /\ Ready
    /\ ~(StartAbsent /\ EndAbsent)
    /\ filledPositions(filteredDataAndMetrics) >= 2
    /\ totalJoinedCandidates(filteredDataAndMetrics) = 1
    /\ SumOfCounts(filteredDataAndMetrics.metrics.joinersByDepartment) = 1
    /\ SumOfCounts(filteredDataAndMetrics.metrics.sourceOfHireBreakdown) = 1
    /\ SumOfCounts(monthlyJoinersData) = filledPositions(filteredDataAndMetrics)

\* all four figures equal Filled Positions
C28_EqualWitness ==
    /\ Ready
    /\ filledPositions(filteredDataAndMetrics) = 2
    /\ totalJoinedCandidates(filteredDataAndMetrics) = 2
    /\ SumOfCounts(filteredDataAndMetrics.metrics.joinersByDepartment) = 2
    /\ SumOfCounts(filteredDataAndMetrics.metrics.sourceOfHireBreakdown) = 2
    /\ SumOfCounts(monthlyJoinersData) = 2

-----------------------------------------------------------------------------
\* The data route's metrics and the dashboard's

\* a date text both normalizers accept: each makes a valid date of it
AcceptedByBoth(text) ==
    /\ Truthy(text)
    /\ IsValidDate(parseDateForFiltering(text, browser, clientTz))
    /\ IsValidDate(parseDate(text, serverTz))

\* every date the aggregation reads is empty or accepted by both normalizers
DatesAcceptedByBoth(d) ==
    /\ \A i \in 1..Len(d.mcubeData) :
          \/ Absent(Get(d.mcubeData[i], "Request Created Date"))
          \/ AcceptedByBoth(Get(d.mcubeData[i], "Request Created Date"))
    /\ \A i \in 1..Len(d.taTrackerData) :
          \/ Absent(Get(d.taTrackerData[i], "Joining Date"))
          \/ AcceptedByBoth(Get(d.taTrackerData[i], "Joining Date"))

\* C29: with both date bounds empty and every date text of a form both
\* normalizers accept, the metrics model of the data route equals the
\* metrics model the dashboard recomputes from the same five record sets.
C29_SameMetricsOnBothSides ==
    (Ready /\ StartAbsent /\ EndAbsent /\ DatesAcceptedByBoth(rawMbrData)) =>
        rawMbrData.metrics = filteredDataAndMetrics.metrics

\* a date text written day, month name, year
AllDayMonthYear(d) ==
    /\ \A i \in 1..Len(d.mcubeData) :
          \/ Absent(Get(d.mcubeData[i], "Request Created Date"))
          \/ /\ AcceptedByBoth(Get(d.mcubeData[i], "Request Created Date"))
             /\ ShapeDMonY(Get(d.mcubeData[i], "Request Created Date")) # <<>>
    /\ \A i \in 1..Len(d.taTrackerData) :
          \/ Absent(Get(d.taTrackerData[i], "Joining Date"))
          \/ /\ AcceptedByBoth(Get(d.taTrackerData[i], "Joining Date"))
             /\ ShapeDMonY(Get(d.taTrackerData[i], "Joining Date")) # <<>>

\* the two models are equal when every date is written DD-Mon-YYYY
C29_SameForDayMonthYear ==
    (Ready /\ StartAbsent /\ EndAbsent /\ AllDayMonthYear(rawMbrData)) =>
        rawMbrData.metrics = filteredDataAndMetrics.metrics

C29_DayMonthYearWitness ==
    /\ Ready /\ StartAbsent /\ EndAbsent /\ AllDayMonthYear(rawMbrData)
    /\ Len(filteredDataAndMetrics.metrics.timeToFillDetails) >= 2
    /\ filteredDataAndMetrics.metrics.overallTimeToFillAverageDays.den = 2
    /\ filteredDataAndMetrics.metrics.joinersByDepartment # <<>>

-----------------------------------------------------------------------------
\* Widening the window

\* the window [startDate, endDate] is contained in [s2, e2], an absent bound
\* being unbounded on its side
ContainedIn(s2, e2) ==
    /\ s2 = EmptyText \/ (~StartAbsent /\ Norm(s2).time <= Norm(startDate).time)
    /\ e2 = EmptyText \/ (~EndAbsent /\ Norm(endDate).time <= Norm(e2).time)

\* what the filter retains of the raw data under the window [s2, e2]
RetainedUnder(s2, e2) == FilterData(rawMbrData, s2, e2, browser, clientTz)

Occurrences(seq, row) == Cardinality({i \in 1..Len(seq) : seq[i] = row})

\* every record of `narrow` is in `wide`, as many times at least
AllAmong(narrow, wide) ==
    \A i \in 1..Len(narrow) : Occurrences(narrow, narrow[i]) <= Occurrences(wide, narrow[i])

\* C30: for the same raw record sets, every record of every sheet that is
\* retained under the window is retained under every window that contains it.
C30_FilterMonotone ==
    Ready =>
        \A s2 \in StartTexts, e2 \in EndTexts :
            ContainedIn(s2, e2) =>
                \A sheet \in FiveSheets :
                    AllAmong(filteredDataAndMetrics[sheet], RetainedUnder(s2, e2)[sheet])

\* June 2024 retains a candidate and drops another that the window from May
\* 2024 to June 2025 retains
C30_Witness ==
    /\ Ready
    /\ startDate = T_2024_06_01
    /\ endDate = T_2024_06_30
    /\ filteredDataAndMetrics.taTrackerData # <<>>
    /\ Len(filteredDataAndMetrics.taTrackerData)
          < Len(RetainedUnder(T_2024_05_01, T_2025_06_30).taTrackerData)
    /\ Len(RetainedUnder(T_2024_05_01, T_2025_06_30).taTrackerData)
          < Len(RetainedUnder(EmptyText, EmptyText).taTrackerData)

====
